---- MODULE Spec2Model ----
(***************************************************************************)
(* News-to-market-opportunity pipeline of private-markets-solana:          *)
(*   NewsScrapingService (apps/api/src/services/news-scraper.ts)           *)
(*   AIAgentService and AIProviderService (unnamed/part_003)               *)
(*   the agent routes (apps/api/src/routes/agent.ts)                       *)
(*                                                                         *)
(* JavaScript runs one callback at a time: the code between two awaits of  *)
(* real I/O (a feed fetch, a remote generation call, a create-market call, *)
(* a timer) is one atomic step, so every action below is one such segment. *)
(***************************************************************************)
EXTENDS Integers, Sequences, FiniteSets, TLC

VARIABLES
    \* AIAgentService (part_003:20-23)
    isRunning, lastScanTime, marketsCreated, scanHistory,
    \* NewsScrapingService (news-scraper.ts:142-143)
    seenIds, recentEvents,
    \* process environment, wall clock, the lazily built AIProviderService
    env, now, provider,
    \* the invocations in flight: one record per slot
    tasks,
    \* result of the most recently returned invocation, invocations started,
    \* collaborator calls that failed
    lastResult, invocations, faults,
    \* history: ids ever registered, ids evicted since they were registered, ids
    \* returned and not evicted since, the add operations of the last feed, the
    \* returned ids that a later ingest pushed again, and those it skipped
    added, evicted, retLive, addLog, again, refetched,
    \* history: per invocation, what each feed of its ingest answered and
    \* contributed so far; and the last ingest that returned
    feedLog, lastIngest,
    \* a direct call of generateFromTopic or generateDiverseMarkets: its
    \* arguments, position and result (GeneratorSpec)
    gen,
    \* the scorer's inputs and output, and its output for the text scored before this
    \* one, for the same source (ScorerSpec)
    sc_frags, sc_src, sc_out, sc_prev

vars == << isRunning, lastScanTime, marketsCreated, scanHistory, seenIds,
           recentEvents, env, now, provider, tasks, lastResult, invocations,
           faults, added, evicted, retLive, addLog, again, refetched,
           feedLog, lastIngest, gen,
           sc_frags, sc_src, sc_out, sc_prev >>

(***************************************************************************)
(* Helpers                                                                 *)
(***************************************************************************)
Min(a, b) == IF a < b THEN a ELSE b

Max(a, b) == IF a > b THEN a ELSE b

ToSet(s) == { s[i] : i \in 1..Len(s) }

\* Array.prototype.slice(0, n)
Take(s, n) == SubSeq(s, 1, Min(n, Len(s)))

\* Array.prototype.slice(-n)
TakeLast(s, n) == SubSeq(s, Max(1, Len(s) - n + 1), Len(s))

\* line 171 as a bug would have it: score = weight * 10, the last match only
SumSeq_Last(s) == IF s = << >> THEN 0 ELSE s[Len(s)]

RECURSIVE SumSeq(_)
SumSeq(s) == IF s = << >> THEN 0 ELSE Head(s) + SumSeq(Tail(s))

(***************************************************************************)
(* Strings.  TLC evaluates Len, \o and SubSeq on strings.                  *)
(***************************************************************************)
UpperChars == << "A","B","C","D","E","F","G","H","I","J","K","L","M",
                 "N","O","P","Q","R","S","T","U","V","W","X","Y","Z" >>

LowerChars == << "a","b","c","d","e","f","g","h","i","j","k","l","m",
                 "n","o","p","q","r","s","t","u","v","w","x","y","z" >>

LowerChar(c) ==
    IF \E i \in 1..26 : UpperChars[i] = c
    THEN LowerChars[CHOOSE i \in 1..26 : UpperChars[i] = c]
    ELSE c

\* String.prototype.toLowerCase, by halves
RECURSIVE toLowerCase(_)
toLowerCase(s) ==
    IF Len(s) = 0 THEN ""
    ELSE IF Len(s) = 1 THEN LowerChar(s)
    ELSE LET m == Len(s) \div 2
         IN  toLowerCase(SubSeq(s, 1, m)) \o toLowerCase(SubSeq(s, m + 1, Len(s)))

\* String.prototype.includes
includes(text, kw) ==
    \E i \in 1..(Len(text) - Len(kw) + 1) : SubSeq(text, i, i + Len(kw) - 1) = kw

(***************************************************************************)
(* Relevance scorer (news-scraper.ts:4-79, 158-234).  A keyword weight w   *)
(* is held as w10 = w * 10, the amount the code adds for a match, and a    *)
(* source weight as weight10 = weight * 10.                                *)
(***************************************************************************)
PRIVACY_KEYWORDS ==
    << [kw |-> "zero-knowledge", w10 |-> 30],
       [kw |-> "zk-proof", w10 |-> 30],
       [kw |-> "zk-snark", w10 |-> 30],
       [kw |-> "zk-stark", w10 |-> 30],
       [kw |-> "zkrollup", w10 |-> 30],
       [kw |-> "confidential", w10 |-> 25],
       [kw |-> "encryption", w10 |-> 25],
       [kw |-> "encrypted", w10 |-> 25],
       [kw |-> "privacy-preserving", w10 |-> 30],
       [kw |-> "private transaction", w10 |-> 30],
       [kw |-> "tornado cash", w10 |-> 30],
       [kw |-> "zcash", w10 |-> 25],
       [kw |-> "monero", w10 |-> 25],
       [kw |-> "light protocol", w10 |-> 30],
       [kw |-> "elusiv", w10 |-> 30],
       [kw |-> "aztec", w10 |-> 25],
       [kw |-> "railgun", w10 |-> 25],
       [kw |-> "secret network", w10 |-> 25],
       [kw |-> "gdpr", w10 |-> 20],
       [kw |-> "privacy law", w10 |-> 25],
       [kw |-> "data protection", w10 |-> 20],
       [kw |-> "surveillance", w10 |-> 25],
       [kw |-> "sanctions", w10 |-> 20],
       [kw |-> "ofac", w10 |-> 25],
       [kw |-> "compliance", w10 |-> 15],
       [kw |-> "kyc", w10 |-> 15],
       [kw |-> "aml", w10 |-> 15],
       [kw |-> "privacy", w10 |-> 15],
       [kw |-> "anonymous", w10 |-> 20],
       [kw |-> "anonymity", w10 |-> 20],
       [kw |-> "pseudonymous", w10 |-> 15],
       [kw |-> "private", w10 |-> 10],
       [kw |-> "mixer", w10 |-> 20],
       [kw |-> "mixing", w10 |-> 20],
       [kw |-> "shielded", w10 |-> 25],
       [kw |-> "homomorphic", w10 |-> 30],
       [kw |-> "mpc", w10 |-> 25],
       [kw |-> "secure enclave", w10 |-> 20],
       [kw |-> "tee", w10 |-> 20],
       [kw |-> "trusted execution", w10 |-> 20],
       [kw |-> "data breach", w10 |-> 25],
       [kw |-> "leak", w10 |-> 15],
       [kw |-> "hack", w10 |-> 15],
       [kw |-> "compromised", w10 |-> 15],
       [kw |-> "solana privacy", w10 |-> 30],
       [kw |-> "spl confidential", w10 |-> 30],
       [kw |-> "token-2022 confidential", w10 |-> 30] >>

CATEGORY_ORDER == << "regulation", "technology", "adoption", "events" >>

CATEGORY_KEYWORDS ==
    [ regulation |-> << "law", "regulation", "gdpr", "sanctions", "ofac", "compliance",
                        "legislation", "ban", "restrict", "sec", "cftc" >>,
      technology |-> << "zk", "protocol", "launch", "release", "upgrade", "mainnet",
                        "testnet", "tvl", "smart contract", "proof" >>,
      adoption   |-> << "users", "growth", "adoption", "enterprise", "mainstream",
                        "wallet", "integration", "partnership" >>,
      events     |-> << "breach", "hack", "leak", "scandal", "arrest", "raid",
                        "lawsuit", "verdict", "court" >> ]

URGENCY_KEYWORDS ==
    [ breaking |-> << "breaking", "just in", "urgent", "alert", "confirmed",
                      "arrested", "breached" >>,
      timely   |-> << "announces", "launches", "releases", "proposes", "reaches",
                      "exceeds", "surpasses" >> ]

sources ==
    << [ name |-> "EFF", weight10 |-> 10,
         keywords |-> << "privacy", "encryption", "surveillance", "data protection", "FISA" >> ],
       [ name |-> "Decrypt", weight10 |-> 9,
         keywords |-> << "privacy", "zk", "zero-knowledge", "tornado", "zcash", "monero", "mixer" >> ],
       [ name |-> "CoinDesk", weight10 |-> 7,
         keywords |-> << "privacy", "regulation", "sanctions", "compliance", "OFAC" >> ],
       [ name |-> "CoinTelegraph", weight10 |-> 8,
         keywords |-> << "privacy", "zk-proof", "confidential", "solana" >> ],
       [ name |-> "The Block", weight10 |-> 8,
         keywords |-> << "privacy", "zk-rollup", "confidential", "anonymous" >> ] >>

\* Number of entries of a keyword list that occur in the text.
RECURSIVE CountHits(_, _)
CountHits(text, kws) ==
    IF kws = << >> THEN 0
    ELSE (IF includes(text, Head(kws)) THEN 1 ELSE 0) + CountHits(text, Tail(kws))

\* line 217 as a bug would have it: score >= maxScore, so the last of the
\* categories with the most hits wins
RECURSIVE BestCategory_LastMax(_, _, _, _)
BestCategory_LastMax(text, i, maxScore, bestCategory) ==
    IF i > Len(CATEGORY_ORDER) THEN bestCategory
    ELSE IF CountHits(text, CATEGORY_KEYWORDS[CATEGORY_ORDER[i]]) >= maxScore
         THEN BestCategory_LastMax(text, i + 1,
                                   CountHits(text, CATEGORY_KEYWORDS[CATEGORY_ORDER[i]]),
                                   CATEGORY_ORDER[i])
         ELSE BestCategory_LastMax(text, i + 1, maxScore, bestCategory)

\* determineCategory: the first category, in the order of the scores object,
\* whose hit count is strictly above every earlier one; technology when none hits.
RECURSIVE BestCategory(_, _, _, _)
BestCategory(text, i, maxScore, bestCategory) ==
    IF i > Len(CATEGORY_ORDER) THEN bestCategory
    ELSE LET category == CATEGORY_ORDER[i]
             score == CountHits(text, CATEGORY_KEYWORDS[category])
         IN  IF score > maxScore
             THEN BestCategory(text, i + 1, score, category)
             ELSE BestCategory(text, i + 1, maxScore, bestCategory)

determineCategory(text) == BestCategory(text, 1, 0, "technology")

determineUrgency(text) ==
    IF CountHits(text, URGENCY_KEYWORDS.breaking) > 0 THEN "breaking"
    ELSE IF CountHits(text, URGENCY_KEYWORDS.timely) > 0 THEN "timely"
    ELSE "evergreen"

\* The loop over PRIVACY_KEYWORDS (164-174): matched entries, in table order.
PrivacyMatches(lowerText) ==
    SelectSeq(PRIVACY_KEYWORDS, LAMBDA e : includes(lowerText, e.kw))

\* The loop over the source's keywords (177-184): 5 points per keyword found,
\* the keyword pushed unless that exact string is already in the list.
RECURSIVE SourceMatches(_, _, _)
SourceMatches(lowerText, kws, acc) ==
    IF kws = << >> THEN acc
    ELSE LET keyword == Head(kws)
             hit == includes(lowerText, toLowerCase(keyword))
             acc2 == IF ~hit THEN acc
                     ELSE [ score |-> acc.score + 5,
                            matchedKeywords |->
                                IF keyword \in ToSet(acc.matchedKeywords)
                                THEN acc.matchedKeywords
                                ELSE Append(acc.matchedKeywords, keyword) ]
         IN  SourceMatches(lowerText, Tail(kws), acc2)

\* Math.round(score * sourceWeight) on IEEE-754 doubles.  The raw score is a
\* multiple of 5 and the weight one of 1.0, 0.9, 0.8, 0.7, so the product is a
\* multiple of 0.5 and Math.round rounds a half up; the double product falls
\* just below the half, and rounds down, for 45 * 0.7 and 85 * 0.7 (the other
\* such products are above 100).
RoundWeighted(score, weight10) ==
    IF weight10 = 7 /\ score \in {45, 85}
    THEN (score * weight10) \div 10
    ELSE (score * weight10 + 5) \div 10

ScoreCap == 100

\* line 187 as a bug would have it: the weight applied, the cap forgotten
ApplyWeight_NoCap(score, weight10) == RoundWeighted(score, weight10)

\* line 187: score = Math.min(Math.round(score * sourceWeight), 100)
ApplyWeight(score, weight10) == Min(RoundWeighted(score, weight10), ScoreCap)

\* lines 159-184: the score and the matched keywords before the weight
RawScore(text, sourceKeywords) ==
    LET lowerText == toLowerCase(text)
        hits == PrivacyMatches(lowerText)
        base == [ score |-> SumSeq([ i \in 1..Len(hits) |-> hits[i].w10 ]),
                  matchedKeywords |-> [ i \in 1..Len(hits) |-> hits[i].kw ] ]
    IN  SourceMatches(lowerText, sourceKeywords, base)

scoreRelevance(text, sourceKeywords, sourceWeight10) ==
    LET lowerText == toLowerCase(text)
        all == RawScore(text, sourceKeywords)
    IN  [ score |-> ApplyWeight(all.score, sourceWeight10),
          matchedKeywords |-> all.matchedKeywords,
          suggestedCategory |-> determineCategory(lowerText),
          urgency |-> determineUrgency(lowerText) ]

(***************************************************************************)
(* Bounds of the model.  The capacities of the code (10000 and 5000 seen   *)
(* ids, 100 recent events, 20 entries per feed, 15 returned items) are     *)
(* scaled down so that TLC can fill and overflow them; the clock counts    *)
(* half days, so the 24 hour recency window is 2 ticks.                    *)
(***************************************************************************)
NumTasks == 2          \* invocations that can be in flight together
MaxInvocations == 2    \* invocations started in one behaviour
MaxFaults == 1         \* collaborator calls that fail in one behaviour
MaxTime == 1           \* last tick of the clock
NumSources == 2        \* length of the prefix of sources that is scraped
SeenCap == 4           \* news-scraper.ts:284  (10000)
SeenKeep == 2          \* news-scraper.ts:286  (5000)
maxEvents == 3         \* news-scraper.ts:144  (100)
FeedItemCap == 2       \* news-scraper.ts:253  (20)
MaxNews == 2           \* news-scraper.ts:320  (15)
RecencyWindow == 2     \* news-scraper.ts:241-242 (24 hours)

\* Constants of the code, kept at their values.
MinScore == 20           \* news-scraper.ts:266
MarketableScore == 30    \* part_003:42
OpportunityScore == 30   \* part_003:62
TopNews == 3             \* part_003:61
MarketsPerScan == 2      \* part_003:242, 293
DiverseCount == 3        \* part_003:92

NoDate == -100   \* an entry without pubDate
NoTime == -1     \* lastScanTime = null

(***************************************************************************)
(* Feed entries, as rss-parser hands them over: guid and link are "" when  *)
(* the feed gives none.  pubDate is a tick of the clock.                   *)
(***************************************************************************)
EntryA == [ guid |-> "g-a", link |-> "l-a", pubDate |-> 0,
            title |-> "SEC considers new privacy coin regulations",
            content |-> "regulation and privacy" ]

EntryB == [ guid |-> "g-b", link |-> "l-b", pubDate |-> NoDate,
            title |-> "Tornado Cash mixer sanctions",
            content |-> "zero-knowledge proof" ]

EntryC == [ guid |-> "", link |-> "l-c", pubDate |-> 1,
            title |-> "Weather report", content |-> "" ]

EntryD == [ guid |-> "", link |-> "", pubDate |-> NoDate,
            title |-> "Monero wallet encryption upgrade", content |-> "" ]

EntryE == [ guid |-> "g-e", link |-> "l-e", pubDate |-> 0 - RecencyWindow,
            title |-> "Zcash shielded pool announces zk-snark release",
            content |-> "" ]

Entries == { EntryA, EntryB, EntryC, EntryD, EntryE }

\* line 258: the text that is scored
EntryText(item) == item.title \o " " \o item.content

\* scoreRelevance of every entry text for every source, computed once
ScoreTable ==
    [ s \in 1..Len(sources) |->
        [ x \in { EntryText(e) : e \in Entries } |->
            scoreRelevance(x, sources[s].keywords, sources[s].weight10) ] ]

(***************************************************************************)
(* Dedup cache and per-source scrape (news-scraper.ts:248-295)             *)
(***************************************************************************)
\* line 254: item.guid || item.link || `${source.name}-${Date.now()}`
EntryId(item, sourceName, t) ==
    IF item.guid # "" THEN item.guid
    ELSE IF item.link # "" THEN item.link
    ELSE sourceName \o "-" \o ToString(t)

\* Set.add keeps insertion order and ignores a value already present
SetAdd(seen, id) == IF id \in ToSet(seen) THEN seen ELSE Append(seen, id)

\* lines 284-287 as a bug would have them: trimmed from the wrong end
TrimSeen_Oldest(seen) == IF Len(seen) > SeenCap THEN Take(seen, SeenKeep) ELSE seen

\* lines 284-287: above the cap, only the last SeenKeep ids are kept
TrimSeen(seen) == IF Len(seen) > SeenCap THEN TakeLast(seen, SeenKeep) ELSE seen

\* lines 281-287 as a bug would have them: a new Set that holds the new id only
AddSeen_Replace(seen, id) == << id >>

\* lines 281-287 as a bug would have them: no limit
AddSeen_NoTrim(seen, id) == SetAdd(seen, id)

\* lines 281-287
AddSeen(seen, id) == TrimSeen(SetAdd(seen, id))

\* lines 267-278: the item built from the entry and the scorer's result r
NewsItemOf(item, id, s, t, r) ==
    [ id |-> id,
      title |-> IF item.title # "" THEN item.title ELSE "No title",
      summary |-> item.content,
      source |-> sources[s].name,
      link |-> item.link,
      publishedAt |-> IF item.pubDate # NoDate THEN item.pubDate ELSE t,
      relevanceScore |-> r.score,
      matchedKeywords |-> r.matchedKeywords,
      suggestedCategory |-> r.suggestedCategory,
      urgency |-> r.urgency ]

\* lines 258-278
MakeNewsItem(item, id, s, t) == NewsItemOf(item, id, s, t, ScoreTable[s][EntryText(item)])

\* line 256 as a bug would have it: the cache is not consulted
IsSeen_Never(seen, id) == FALSE

\* line 256 as a bug would have it: only the id added last is recognised
IsSeen_Last(seen, id) == seen # << >> /\ seen[Len(seen)] = id

\* line 256: this.seenIds.has(id)
IsSeen(seen, id) == id \in ToSet(seen)

\* line 266 as a bug would have it: only items that pass the threshold are registered
Registers_OnlyKept(score) == score >= MinScore

\* line 281 is reached for every entry that was not skipped at line 256
Registers(score) == TRUE

\* the ids that a batch eviction of lines 284-287 is documented to drop from
\* the cache pre, which already holds the id just added: the oldest ones, all
\* but the newest SeenKeep
OldestOver(pre) ==
    IF Len(pre) > SeenCap THEN ToSet(Take(pre, Len(pre) - SeenKeep)) ELSE {}

\* lines 265-288 for one entry that was not skipped: the item is pushed when
\* it reaches the threshold and the id is registered.  acc holds the items
\* pushed so far and the cache, and for the record: the ids registered in this
\* call, the ids dropped by a batch eviction since they were last registered,
\* the add operations of this call, the ids returned by an earlier ingest and
\* not evicted since, and those of them pushed again by this call.
ScrapeEntry(acc, id, news, reg, kept, out) ==
    [ items |-> IF kept THEN Append(acc.items, news) ELSE acc.items,
      seen |-> IF reg THEN AddSeen(acc.seen, id) ELSE acc.seen,
      added |-> IF reg THEN acc.added \cup {id} ELSE acc.added,
      evicted |-> IF reg THEN (acc.evicted \ {id}) \cup out ELSE acc.evicted,
      ops |-> IF reg
              THEN Append(acc.ops, [ before |-> acc.seen, id |-> id,
                                     after |-> AddSeen(acc.seen, id) ])
              ELSE acc.ops,
      live |-> acc.live \ out,
      again |-> IF kept /\ id \in acc.live THEN acc.again \cup {id} ELSE acc.again,
      skipped |-> acc.skipped ]

\* lines 254-288 for one entry whose id and item are known
ScrapeItem(acc, id, news) ==
    IF IsSeen(acc.seen, id)
    THEN [ acc EXCEPT !.skipped = IF id \in acc.live THEN @ \cup {id} ELSE @ ]
    ELSE ScrapeEntry(acc, id, news, Registers(news.relevanceScore),
                     news.relevanceScore >= MinScore,
                     IF Registers(news.relevanceScore)
                     THEN OldestOver(SetAdd(acc.seen, id)) ELSE {})

ScrapeOne(acc, item, id, s, t) == ScrapeItem(acc, id, MakeNewsItem(item, id, s, t))

\* The loop of lines 253-288 over the entries left to process.
RECURSIVE ScrapeLoop(_, _, _, _)
ScrapeLoop(entries, s, t, acc) ==
    IF entries = << >> THEN acc
    ELSE ScrapeLoop(Tail(entries), s, t,
                    ScrapeOne(acc, Head(entries),
                              EntryId(Head(entries), sources[s].name, t), s, t))

\* scrapeRSSSource after parseURL has answered: the feed's entries, or a
\* failure, which the catch of lines 291-294 turns into no items.
scrapeRSSSource(outcome, s, t, seen, ev, live) ==
    LET start == [ items |-> << >>, seen |-> seen, added |-> {}, evicted |-> ev,
                   ops |-> << >>, live |-> live, again |-> {}, skipped |-> {} ]
    IN  IF outcome.ok
        THEN ScrapeLoop(Take(outcome.items, FeedItemCap), s, t, start)
        ELSE start

(***************************************************************************)
(* scrapeAllSources, getMarketableNews, getDemoNews (news-scraper.ts:300-  *)
(* 422)                                                                    *)
(***************************************************************************)
Reverse(s) == [ i \in 1..Len(s) |-> s[Len(s) + 1 - i] ]

\* lines 312-314 as a bug would have them: the newest events are cut off
UpdateRecentEvents_DropNewest(events, allNews) ==
    TakeLast(Reverse(allNews) \o events, maxEvents)

\* lines 309-314: every item unshifted in turn, then slice(0, maxEvents)
UpdateRecentEvents(events, allNews) == Take(Reverse(allNews) \o events, maxEvents)

\* lines 239-243
isRecentNews(publishedAt, t) == t - publishedAt < RecencyWindow

\* Array.prototype.sort with (a, b) => b.relevanceScore - a.relevanceScore:
\* descending and stable
RECURSIVE InsertByScore(_, _)
InsertByScore(sorted, x) ==
    IF sorted = << >> THEN << x >>
    ELSE IF Head(sorted).relevanceScore >= x.relevanceScore
         THEN << Head(sorted) >> \o InsertByScore(Tail(sorted), x)
         ELSE << x >> \o sorted

RECURSIVE SortByScore(_)
SortByScore(s) ==
    IF s = << >> THEN << >>
    ELSE InsertByScore(SortByScore(SubSeq(s, 1, Len(s) - 1)), s[Len(s)])

\* lines 317-320 as a bug would have them: truncated before sorted
RankNews_CutFirst(allNews, t) ==
    SortByScore(Take(SelectSeq(allNews, LAMBDA n : isRecentNews(n.publishedAt, t)),
                     MaxNews))

\* lines 317-320
RankNews(allNews, t) ==
    Take(SortByScore(SelectSeq(allNews, LAMBDA n : isRecentNews(n.publishedAt, t))),
         MaxNews)

\* lines 334-336
getRecentEvents(events, limit) == Take(events, limit)

\* lines 326-329
FilterMarketable(news, minScore) ==
    SelectSeq(news, LAMBDA n : n.relevanceScore >= minScore)

\* lines 359-422.  The five items are published 0 to 4 hours before the call,
\* which is the tick of the call on the model's clock.
DemoItem(id, title, summary, link, score, kws, category, urgency, t) ==
    [ id |-> id, title |-> title, summary |-> summary, source |-> "Demo News",
      link |-> link, publishedAt |-> t,
      relevanceScore |-> score, matchedKeywords |-> kws,
      suggestedCategory |-> category, urgency |-> urgency ]

getDemoNews(t) ==
    << DemoItem("demo-1", "SEC Considers New Privacy Coin Regulations for 2025",
                "The Securities and Exchange Commission is reviewing new framework for privacy-focused cryptocurrencies amid growing regulatory scrutiny.",
                "https://example.com/sec-privacy-regulations",
                85, << "privacy", "regulation", "sec" >>, "regulation", "timely", t),
       DemoItem("demo-2", "Zero-Knowledge Proof Technology Adoption Surges 300% in DeFi",
                "Major DeFi protocols are rapidly implementing ZK-proof technology to enhance user privacy and transaction confidentiality.",
                "https://example.com/zk-defi-surge",
                90, << "zero-knowledge", "zk-proof", "privacy", "confidential" >>,
                "technology", "breaking", t),
       DemoItem("demo-3", "Solana Launches New Privacy Features for Enterprise Users",
                "Solana Foundation announces confidential transactions and private smart contracts for enterprise adoption.",
                "https://example.com/solana-privacy-enterprise",
                80, << "solana privacy", "confidential", "private" >>,
                "technology", "timely", t),
       DemoItem("demo-4", "Major Data Breach Affects 50M Users at Tech Giant",
                "Security researchers confirm massive data leak exposing personal information of millions of users worldwide.",
                "https://example.com/data-breach-millions",
                75, << "data breach", "leak", "privacy" >>, "events", "breaking", t),
       DemoItem("demo-5", "Tornado Cash Developer's Appeal Gains Support from EFF",
                "Electronic Frontier Foundation files amicus brief supporting privacy rights in landmark crypto case.",
                "https://example.com/tornado-cash-eff",
                95, << "tornado cash", "privacy", "sanctions" >>, "regulation", "breaking", t) >>

(***************************************************************************)
(* AIProviderService (part_003:417-753)                                    *)
(***************************************************************************)
NoRef == << >>   \* an absent sourceNews or sourceTopic; a present one is << x >>

\* lines 422-436: Gemini first, then Anthropic, then the rule-based fallback
SelectProvider(e) ==
    IF e.google THEN "gemini" ELSE IF e.anthropic THEN "anthropic" ELSE "fallback"

\* title.replace(/['"]/g, '')
RECURSIVE RemoveQuotes(_)
RemoveQuotes(s) ==
    IF Len(s) = 0 THEN ""
    ELSE IF Len(s) = 1 THEN IF s = "'" \/ s = "\"" THEN "" ELSE s
    ELSE LET m == Len(s) \div 2
         IN  RemoveQuotes(SubSeq(s, 1, m)) \o RemoveQuotes(SubSeq(s, m + 1, Len(s)))

\* String.prototype.slice(0, n)
StrTake(s, n) == SubSeq(s, 1, Min(n, Len(s)))

\* String.prototype.endsWith
endsWith(s, suffix) ==
    Len(s) >= Len(suffix) /\ SubSeq(s, Len(s) - Len(suffix) + 1, Len(s)) = suffix

\* lines 746-752: the month and year daysFromNow ahead; the calendar is not
\* modelled, the text names the distance
formatFutureDate(daysFromNow) == "the month " \o ToString(daysFromNow) \o " days ahead"

\* category.charAt(0).toUpperCase() + category.slice(1)
CategoryName(category) ==
    CASE category = "regulation" -> "Regulation"
      [] category = "technology" -> "Technology"
      [] category = "adoption" -> "Adoption"
      [] category = "events" -> "Events"
      [] OTHER -> category

\* lines 575-613
generateWithFallback(title, summary) ==
    LET text == toLowerCase(title \o " " \o summary)
        isRegulation == includes(text, "regulation") \/ includes(text, "law")
                        \/ includes(text, "sec") \/ includes(text, "ban")
        isEvents == includes(text, "breach") \/ includes(text, "hack")
                    \/ includes(text, "arrest")
        isAdoption == includes(text, "adoption") \/ includes(text, "users")
                      \/ includes(text, "growth")
        category == IF isRegulation THEN "regulation"
                    ELSE IF isEvents THEN "events"
                    ELSE IF isAdoption THEN "adoption" ELSE "technology"
        urgency == IF ~isRegulation /\ isEvents THEN "breaking" ELSE "timely"
        cleanTitle == StrTake(RemoveQuotes(title), 60)
        durationDays == IF urgency = "breaking" THEN 14
                        ELSE IF category = "regulation" THEN 90 ELSE 30
        question ==
            CASE category = "regulation" ->
                     "Will regulatory action be taken regarding \"" \o cleanTitle
                     \o "\" by " \o formatFutureDate(durationDays) \o "?"
              [] category = "technology" ->
                     "Will \"" \o cleanTitle
                     \o "\" lead to significant protocol adoption within "
                     \o ToString(durationDays) \o " days?"
              [] category = "adoption" ->
                     "Will user metrics exceed expectations for \"" \o cleanTitle
                     \o "\" by " \o formatFutureDate(durationDays) \o "?"
              [] category = "events" ->
                     "Will there be follow-up legal or regulatory action on \""
                     \o cleanTitle \o "\" within " \o ToString(durationDays) \o " days?"
    IN  [ question |-> question,
          category |-> category,
          categoryName |-> CategoryName(category),
          suggestedDurationDays |-> durationDays,
          suggestedLiquidityUSDC |-> 5000,
          urgency |-> urgency,
          reasoning |-> "Auto-generated from news: " \o StrTake(title, 50) \o "...",
          sourceNews |-> NoRef,
          sourceTopic |-> NoRef ]

\* lines 618-638; category is "" when the caller passes none
generateTopicFallback(topic, category) ==
    LET cat == IF category # "" THEN category ELSE "technology"
    IN  [ question |-> IF endsWith(topic, "?") THEN topic
                       ELSE "Will " \o toLowerCase(topic) \o "?",
          category |-> cat,
          categoryName |-> CategoryName(cat),
          suggestedDurationDays |-> IF cat = "regulation" THEN 90 ELSE 60,
          suggestedLiquidityUSDC |-> 5000,
          urgency |-> "timely",
          reasoning |-> "Generated from topic: " \o StrTake(topic, 50),
          sourceNews |-> NoRef,
          sourceTopic |-> NoRef ]

DemoMarket(question, category, days, liquidity, urgency, reasoning) ==
    [ question |-> question, category |-> category,
      categoryName |-> CategoryName(category),
      suggestedDurationDays |-> days, suggestedLiquidityUSDC |-> liquidity,
      urgency |-> urgency, reasoning |-> reasoning,
      sourceNews |-> NoRef, sourceTopic |-> NoRef ]

\* lines 643-696
getDemoMarkets ==
    << DemoMarket("Will the SEC approve a privacy-focused crypto ETF by end of 2025?",
                  "regulation", 180, 10000, "timely",
                  "High-impact regulatory decision affecting privacy coins"),
       DemoMarket("Will Solana's confidential token standard (Token-2022) see 1M+ transfers by Q4 2025?",
                  "technology", 120, 8000, "timely",
                  "Key adoption metric for Solana's privacy features"),
       DemoMarket("Will Tornado Cash sanctions be fully lifted before 2026?",
                  "regulation", 365, 15000, "evergreen",
                  "Major precedent for privacy protocol regulations"),
       DemoMarket("Will a major data breach affecting 100M+ users occur in 2025?",
                  "events", 365, 5000, "evergreen",
                  "Privacy market indicator based on breach frequency"),
       DemoMarket("Will zero-knowledge proof TVL exceed $10B across all chains by mid-2025?",
                  "adoption", 150, 12000, "timely",
                  "Key metric for ZK technology adoption") >>

\* lines 709-720
topics ==
    << "Will US pass comprehensive crypto privacy regulations in 2025?",
       "Will Solana privacy features reach 1M+ active users by end of 2025?",
       "Will a major exchange implement zero-knowledge proofs for trading by Q4 2025?",
       "Will the EU ban privacy coins completely by 2026?",
       "Will Tornado Cash legal case be resolved favorably by end of 2025?",
       "Will enterprise adoption of confidential computing exceed 50% by 2026?",
       "Will a major data breach affect 100M+ users in 2025?",
       "Will decentralized identity solutions reach mainstream adoption by 2025?",
       "Will privacy-preserving AI regulations be passed globally by 2026?",
       "Will Token-2022 confidential transfers be used by major DeFi protocols?" >>

\* line 722
categories == << "regulation", "technology", "adoption", "events" >>

\* What a remote provider's completion decodes to when it is the JSON object the
\* prompt asks for (lines 379-388).
RemoteMarket ==
    [ question |-> "Will the proposal pass within 90 days?",
      category |-> "regulation", categoryName |-> "Regulation",
      suggestedDurationDays |-> 90, suggestedLiquidityUSDC |-> 5000,
      urgency |-> "timely", reasoning |-> "A dated, verifiable outcome",
      sourceNews |-> NoRef, sourceTopic |-> NoRef ]

\* lines 471-475: the market with the news reference attached
WithSourceNews(market, newsItem) ==
    [ market EXCEPT !.sourceNews = << [ title |-> newsItem.title,
                                        source |-> newsItem.source,
                                        link |-> newsItem.link ] >> ]

\* lines 502-506: the market with the topic attached
WithSourceTopic(market, topic) == [ market EXCEPT !.sourceTopic = << topic >> ]

\* generateWithFallback of every news text the model can produce, computed once
FallbackTable ==
    [ k \in { << e.title, e.content >> : e \in Entries }
            \cup { << getDemoNews(0)[i].title, getDemoNews(0)[i].summary >> : i \in 1..5 }
        |-> generateWithFallback(k[1], k[2]) ]

(***************************************************************************)
(* AIAgentService (part_003:19-356): the code of one invocation from one   *)
(* await of real I/O to the next.  A task record is the invocation's       *)
(* locals: pc names the I/O it waits for.                                  *)
(*   fetch   parser.parseURL of sources[src]            (news-scraper 250) *)
(*   gen     the remote generateFromNews of news[i]     (part_003:64)      *)
(*   div     the remote generateFromTopic of topics[i]  (part_003:728)     *)
(*   create  pnpService.createPrivacyMarket of opps[j]  (part_003:163)     *)
(*   delay   the rate-limit timer after opps[j]         (part_003:247,295) *)
(*   return  nothing: the invocation has run to its end                    *)
(***************************************************************************)
Tasks == 1..NumTasks

IdleTask ==
    [ kind |-> "none", pc |-> "idle", src |-> 0, allNews |-> << >>, news |-> << >>,
      i |-> 0, opps |-> << >>, results |-> << >>, j |-> 0, created |-> << >> ]

\* lines 332-335, in hundredths: Math.min(Math.max(score / 100, 0.3), 0.9)
\* line 334 as a bug would have it: no ceiling
calculateConfidenceFromScore_NoCeiling(relevanceScore) == Max(relevanceScore, 30)

calculateConfidenceFromScore(relevanceScore) == Min(Max(relevanceScore, 30), 90)

\* lines 71-80
NewsOpportunity(market, newsItem) ==
    [ question |-> market.question,
      reasoning |-> market.reasoning,
      durationDays |-> market.suggestedDurationDays,
      confidence |-> calculateConfidenceFromScore(newsItem.relevanceScore),
      category |-> market.category,
      urgency |-> market.urgency,
      suggestedLiquidityUSDC |-> market.suggestedLiquidityUSDC,
      sourceNews |-> market.sourceNews ]

\* lines 96-104
DiverseOpportunity(market) ==
    [ question |-> market.question,
      reasoning |-> market.reasoning,
      durationDays |-> market.suggestedDurationDays,
      confidence |-> 70,
      category |-> market.category,
      urgency |-> market.urgency,
      suggestedLiquidityUSDC |-> market.suggestedLiquidityUSDC,
      sourceNews |-> NoRef ]

\* lines 242, 293 as a bug would have them: the loop over every opportunity
CreateLoop_NoCap(tk, j) ==
    IF j > Len(tk.opps)
    THEN [ tk EXCEPT !.pc = "return" ]
    ELSE [ tk EXCEPT !.pc = "create", !.j = j ]

\* lines 242, 293: the loop over opportunities.slice(0, 2), about to take opps[j]
CreateLoop(tk, j) ==
    IF j > Min(MarketsPerScan, Len(tk.opps))
    THEN [ tk EXCEPT !.pc = "return" ]
    ELSE [ tk EXCEPT !.pc = "create", !.j = j ]

\* identifyMarketOpportunities has returned: the scan route answers, a cycle
\* goes on to create markets
AfterIdentify(tk) ==
    IF tk.kind = "scan" THEN [ tk EXCEPT !.pc = "return" ] ELSE CreateLoop(tk, 1)

\* lines 94-106: the successful results become opportunities
DiverseToOpportunities(tk, results) ==
    LET good == SelectSeq(results, LAMBDA r : r.success)
    IN  [ tk EXCEPT !.opps = @ \o [ k \in 1..Len(good) |-> DiverseOpportunity(good[k].market) ],
                    !.results = results ]

\* lines 704-707, 739-740
DemoResults(count) ==
    LET demo == Take(getDemoMarkets, count)
    IN  [ k \in 1..Len(demo) |-> [ success |-> TRUE, market |-> demo[k] ] ]

\* lines 737-743 as a bug would have them: no substitution
DiverseResults_Raw(results, count) == results

\* lines 737-743: the demo markets when every call failed
DiverseResults(results, count) ==
    IF Len(SelectSeq(results, LAMBDA r : ~r.success)) = count
    THEN DemoResults(count) ELSE results

\* lines 726-743: the loop of generateDiverseMarkets about to take topics[i],
\* then the substitution when every call failed
DiverseLoop(tk, i, results) ==
    IF i <= Min(DiverseCount, Len(topics))
    THEN [ tk EXCEPT !.pc = "div", !.i = i, !.results = results ]
    ELSE AfterIdentify(DiverseToOpportunities(tk, DiverseResults(results, DiverseCount)))

\* lines 90-107: after the loop over the news
AfterGenLoop(tk, p) ==
    IF Len(tk.opps) # 0 THEN AfterIdentify(tk)
    ELSE IF p = "fallback"
         THEN AfterIdentify(DiverseToOpportunities(tk, DemoResults(DiverseCount)))
         ELSE DiverseLoop(tk, 1, << >>)

\* lines 61-87: the loop over news.slice(0, 3), about to take news[i].  The
\* fallback provider generates without I/O; a remote one is awaited.
RECURSIVE GenLoop(_, _, _)
GenLoop(tk, i, p) ==
    IF i > Min(TopNews, Len(tk.news)) THEN AfterGenLoop(tk, p)
    ELSE IF tk.news[i].relevanceScore > OpportunityScore
         THEN IF p = "fallback"
              THEN LET n == tk.news[i]
                       market == WithSourceNews(FallbackTable[<< n.title, n.summary >>], n)
                   IN  GenLoop([ tk EXCEPT !.opps = Append(@, NewsOpportunity(market, n)) ],
                               i + 1, p)
              ELSE [ tk EXCEPT !.pc = "gen", !.i = i ]
         ELSE GenLoop(tk, i + 1, p)

\* scrapeNews has returned news: the scrape route answers, the others analyse it
AfterScrape(tk, news, p) ==
    IF tk.kind = "scrape"
    THEN [ tk EXCEPT !.news = news, !.pc = "return" ]
    ELSE GenLoop([ tk EXCEPT !.news = news ], 1, p)

\* lines 35-43 as a bug would have them: the feeds are fetched in demo mode too
BeginScrape_Live(tk, t, e, p) ==
    [ tk EXCEPT !.pc = "fetch", !.src = 1, !.allNews = << >> ]

\* lines 32-48: demo news at once, or the first feed requested
BeginScrape(tk, t, e, p) ==
    IF e.useDemo THEN AfterScrape(tk, getDemoNews(t), p)
    ELSE [ tk EXCEPT !.pc = "fetch", !.src = 1, !.allNews = << >> ]

\* lines 756-764 as a bug would have them: a new service at every use
Instance_Reselect(prov, e) == SelectProvider(e)

\* the lazily initialised singleton of lines 756-764
Instance(prov, e) == IF prov = "unset" THEN SelectProvider(e) ELSE prov

(***************************************************************************)
(* Initial state: the services as constructed (part_003:20-23,             *)
(* news-scraper.ts:142-143).  The environment holds the two API keys or    *)
(* only Anthropic's or none, and asks for demo news or not.                *)
(***************************************************************************)
Envs ==
    { [ google |-> g, anthropic |-> a, useDemo |-> d ] :
        g \in BOOLEAN, a \in BOOLEAN, d \in BOOLEAN } \
    { [ google |-> TRUE, anthropic |-> FALSE, useDemo |-> d ] : d \in BOOLEAN }

NoResult == [ kind |-> "none", success |-> FALSE, newsFound |-> 0,
              opportunitiesFound |-> 0, marketsCreated |-> << >> ]

\* no ingest has returned yet
NoIngest == [ done |-> FALSE, log |-> << >>, all |-> << >>, ret |-> << >>,
              at |-> 0, before |-> << >> ]

InitServices ==
    /\ isRunning = FALSE
    /\ lastScanTime = NoTime
    /\ marketsCreated = << >>
    /\ scanHistory = << >>
    /\ seenIds = << >>
    /\ recentEvents = << >>
    /\ now = 0
    /\ provider = "unset"
    /\ tasks = [ t \in Tasks |-> IdleTask ]
    /\ lastResult = NoResult
    /\ invocations = 0
    /\ faults = 0
    /\ added = {}
    /\ evicted = {}
    /\ retLive = {}
    /\ addLog = << >>
    /\ again = {}
    /\ refetched = {}
    /\ feedLog = [ t \in Tasks |-> << >> ]
    /\ lastIngest = NoIngest

\* no direct call of the generator is in progress
GenIdle == [ pc |-> "idle", kind |-> "none", topic |-> "", category |-> "", count |-> 0,
            i |-> 0, results |-> << >>, out |-> << >> ]

ScorerIdle ==
    /\ gen = GenIdle
    /\ sc_frags = << >>
    /\ sc_src = 0
    /\ sc_out = << >>
    /\ sc_prev = << >>

Init ==
    /\ InitServices
    /\ env \in Envs
    /\ ScorerIdle

scorerVars == << sc_frags, sc_src, sc_out, sc_prev >>

\* what the pipeline's actions leave alone
unitVars == << scorerVars, gen >>

histVars == << added, evicted, retLive, addLog, again, refetched, feedLog, lastIngest >>

scraperVars == << seenIds, recentEvents >>

(***************************************************************************)
(* The end of a segment: the invocation waits again, or it has returned.   *)
(***************************************************************************)
\* lines 222, 282 as a bug would have them: the flag is not consulted
CycleBusy_Never(running) == FALSE

\* lines 222, 282: if (this.isRunning) return
CycleBusy(running) == running

\* lines 222-229 as a bug would have them: the guard inside the try, so that the
\* finally of a rejected call clears the flag of the cycle in flight
FlagAfterBusy_Cleared(running) == FALSE

\* lines 222-229: the rejected call returns before the try and leaves the flag
FlagAfterBusy(running) == running

\* lines 271-273, 301-303 as a bug would have them: no finally
FlagAfterCycle_Kept(running) == running

\* lines 271-273, 301-303: finally { this.isRunning = false }
FlagAfterCycle(running) == FALSE

\* lines 250-255: forceScan records the cycle
ForceHistory(history, tk, t) ==
    Append(history, [ timestamp |-> t, marketsFound |-> Len(tk.opps),
                      marketsCreated |-> Len(tk.created) ])

\* lines 257-262, and what the routes answer (agent.ts:50-56, 71-84)
Result(tk) ==
    [ kind |-> tk.kind, success |-> TRUE, newsFound |-> Len(tk.news),
      opportunitiesFound |-> Len(tk.opps), marketsCreated |-> tk.created ]

\* lines 223-228
BusyResult == [ NoResult EXCEPT !.kind = "busy" ]

\* tk is the invocation of slot t at the end of the segment, running the value
\* of the flag at that point
Settle(t, tk, running) ==
    IF tk.pc # "return"
    THEN /\ tasks' = [ tasks EXCEPT ![t] = tk ]
         /\ isRunning' = running
         /\ UNCHANGED << lastScanTime, scanHistory, lastResult >>
    ELSE /\ tasks' = [ tasks EXCEPT ![t] = IdleTask ]
         /\ lastResult' = Result(tk)
         /\ CASE tk.kind = "force" ->     \* lines 250-262, 271-273
                   /\ lastScanTime' = now
                   /\ scanHistory' = ForceHistory(scanHistory, tk, now)
                   /\ isRunning' = FlagAfterCycle(running)
              [] tk.kind = "cron" ->      \* lines 298, 301-303
                   /\ lastScanTime' = now
                   /\ scanHistory' = scanHistory
                   /\ isRunning' = FlagAfterCycle(running)
              [] OTHER ->                 \* agent.ts:50-56, 71-84
                   /\ isRunning' = running
                   /\ UNCHANGED << lastScanTime, scanHistory >>

\* the free slot an invocation takes
FreeSlot(t) ==
    /\ tasks[t].kind = "none"
    /\ \A u \in Tasks : u < t => tasks[u].kind # "none"

\* the first segment of any invocation: scrapeNews up to its first await
Begin(t, kind, running) ==
    LET p == Instance(provider, env)
        tk == BeginScrape([ IdleTask EXCEPT !.kind = kind ], now, env, p)
    IN  /\ invocations' = invocations + 1
        /\ provider' = IF env.useDemo /\ kind # "scrape" THEN p ELSE provider
        /\ Settle(t, tk, running)
        /\ UNCHANGED << marketsCreated, scraperVars, env, now, faults, histVars,
                        unitVars >>

\* lines 222-229: a rejected forceScan
RejectForce ==
    /\ lastResult' = BusyResult
    /\ isRunning' = FlagAfterBusy(isRunning)
    /\ UNCHANGED << lastScanTime, marketsCreated, scanHistory, scraperVars, env, now,
                    provider, tasks, invocations, faults, histVars, unitVars >>

\* part_003:216-274 up to the first await
ForceScan(t) ==
    /\ FreeSlot(t)
    /\ IF CycleBusy(isRunning) THEN RejectForce ELSE Begin(t, "force", TRUE)

\* part_003:281-304 up to the first await: the cron callback
ScheduledScan(t) ==
    /\ FreeSlot(t)
    /\ IF CycleBusy(isRunning) THEN UNCHANGED vars ELSE Begin(t, "cron", TRUE)

\* agent.ts:46-63 up to the first await
ScrapeRoute(t) ==
    /\ FreeSlot(t)
    /\ Begin(t, "scrape", isRunning)

\* agent.ts:66-91 up to the first await
ScanRoute(t) ==
    /\ FreeSlot(t)
    /\ Begin(t, "scan", isRunning)

(***************************************************************************)
(* The segments that an answer of the outside world resumes.               *)
(***************************************************************************)
FeedFail == [ ok |-> FALSE, items |-> << >> ]

Feed(items) == [ ok |-> TRUE, items |-> items ]

Fault(ok) == faults' = IF ok THEN faults ELSE faults + 1

\* news-scraper.ts:308-321, part_003:42-43: the last feed has been processed;
\* ranked is what scrapeAllSources returns
FetchDone(t, tk, r, allNews, ranked, p, log) ==
    /\ recentEvents' = UpdateRecentEvents(recentEvents, allNews)
    /\ feedLog' = [ feedLog EXCEPT ![t] = << >> ]
    /\ lastIngest' = [ done |-> TRUE, log |-> log, all |-> allNews, ret |-> ranked,
                       at |-> now, before |-> recentEvents ]
    /\ retLive' = r.live \cup ({ ranked[k].id : k \in 1..Len(ranked) } \cap ToSet(r.seen))
    /\ provider' = IF tk.kind # "scrape" THEN p ELSE provider
    /\ Settle(t, AfterScrape([ tk EXCEPT !.allNews = << >>, !.src = 0 ],
                             FilterMarketable(ranked, MarketableScore), p),
              isRunning)

\* news-scraper.ts:303-306: the next feed is requested
FetchMore(t, tk, r, allNews, log) ==
    /\ recentEvents' = recentEvents
    /\ feedLog' = [ feedLog EXCEPT ![t] = log ]
    /\ lastIngest' = lastIngest
    /\ retLive' = r.live
    /\ provider' = provider
    /\ Settle(t, [ tk EXCEPT !.allNews = allNews, !.src = @ + 1 ], isRunning)

\* lines 303-306 as a bug would have them: a feed that failed ends the loop
LastFeed_OrFailed(src, ok) == src = NumSources \/ ~ok

\* lines 303-306: the loop ends after the last source, whatever the feeds answered
LastFeed(src, ok) == src = NumSources

\* the feed of tk.src has been processed with result r
FetchApply(t, tk, r, allNews, log) ==
    /\ seenIds' = r.seen
    /\ added' = added \cup r.added
    /\ evicted' = r.evicted
    /\ addLog' = r.ops
    /\ again' = again \cup r.again
    /\ refetched' = refetched \cup r.skipped
    /\ IF LastFeed(tk.src, log[Len(log)].ok)
       THEN FetchDone(t, tk, r, allNews, RankNews(allNews, now), Instance(provider, env),
                      log)
       ELSE FetchMore(t, tk, r, allNews, log)

\* for the record: what the feed of tk.src answered, the cache it met and the
\* items it contributed
FeedRecord(tk, outcome, seen, r) ==
    [ src |-> tk.src, ok |-> outcome.ok,
      offered |-> IF outcome.ok THEN outcome.items ELSE << >>,
      seen |-> ToSet(seen), at |-> now, items |-> r.items, ops |-> r.ops ]

FetchResult(t, tk, r, outcome) ==
    FetchApply(t, tk, r, tk.allNews \o r.items,
               Append(feedLog[t], FeedRecord(tk, outcome, seenIds, r)))

\* news-scraper.ts:250-321, part_003:42: parseURL of sources[src] answers
FetchReturn(t, outcome) ==
    /\ tasks[t].pc = "fetch"
    /\ FetchResult(t, tasks[t],
                   scrapeRSSSource(outcome, tasks[t].src, now, seenIds, evicted, retLive),
                   outcome)
    /\ Fault(outcome.ok)
    /\ UNCHANGED << marketsCreated, env, now, invocations, unitVars >>

\* lines 84-86 as a bug would have them: a call that throws ends the loop
NextNews_Abort(i, ok) == IF ok THEN i + 1 ELSE TopNews + 1

\* lines 61-86: the catch is inside the loop, which goes on with the next item
NextNews(i, ok) == i + 1

\* part_003:64-87: the remote generateFromNews of news[i] answers or throws
GenReturn(t, ok) ==
    LET tk == tasks[t]
        n == tk.news[tk.i]
        opp == NewsOpportunity(WithSourceNews(RemoteMarket, n), n)
        tk1 == IF ok THEN [ tk EXCEPT !.opps = Append(@, opp) ] ELSE tk
    IN  /\ tk.pc = "gen"
        /\ Fault(ok)
        /\ Settle(t, GenLoop(tk1, NextNews(tk.i, ok), provider), isRunning)
        /\ UNCHANGED << marketsCreated, scraperVars, env, now, provider, invocations,
                        histVars, unitVars >>

\* part_003:726-743: the remote generateFromTopic of topics[i] answers or throws
DiverseReturn(t, ok) ==
    LET tk == tasks[t]
        topic == topics[tk.i]
        res == IF ok
               THEN [ success |-> TRUE, market |-> WithSourceTopic(RemoteMarket, topic) ]
               ELSE [ success |-> FALSE, error |-> "generation failed" ]
    IN  /\ tk.pc = "div"
        /\ Fault(ok)
        /\ Settle(t, DiverseLoop(tk, tk.i + 1, Append(tk.results, res)), isRunning)
        /\ UNCHANGED << marketsCreated, scraperVars, env, now, provider, invocations,
                        histVars, unitVars >>

\* lines 177-181, 244-246 as a bug would have them: an address kept for a call
\* that threw
Created_Always(list, ok, marketAddress) == Append(list, marketAddress)

\* lines 163-181, 243-246: the address is pushed when the call answered; a
\* call that threw gives null, which is not pushed
Created(list, ok, marketAddress) == IF ok THEN Append(list, marketAddress) ELSE list

\* part_003:156-182, 243-247, 294-295: pnpService.createPrivacyMarket answers
\* with the market's address, or throws and the opportunity is skipped; then
\* the rate-limit timer is started
CreateReturn(t, ok) ==
    LET tk == tasks[t]
        marketAddress == Len(marketsCreated) + 1
    IN  /\ tk.pc = "create"
        /\ marketsCreated' = Created(marketsCreated, ok, marketAddress)
        /\ tasks' = [ tasks EXCEPT ![t] =
                        [ tk EXCEPT !.pc = "delay",
                                    !.created = IF tk.kind = "force"
                                                THEN Created(@, ok, marketAddress)
                                                ELSE @ ] ]
        /\ Fault(ok)
        /\ UNCHANGED << isRunning, lastScanTime, scanHistory, scraperVars, env, now,
                        provider, lastResult, invocations, histVars, unitVars >>

\* part_003:247-262, 295-303: the timer fires; the next opportunity, or the end
DelayDone(t) ==
    LET tk == tasks[t]
    IN  /\ tk.pc = "delay"
        /\ Settle(t, CreateLoop(tk, tk.j + 1), isRunning)
        /\ UNCHANGED << marketsCreated, scraperVars, env, now, provider, invocations,
                        faults, histVars, unitVars >>

\* Date.now() moves on
Tick ==
    /\ now < MaxTime
    /\ now' = now + 1
    /\ UNCHANGED << isRunning, lastScanTime, marketsCreated, scanHistory, scraperVars,
                    env, provider, tasks, lastResult, invocations, faults, histVars,
                    unitVars >>

(***************************************************************************)
(* The pipeline under concurrent invocations: the cron callback, forceScan *)
(* and the scrape and scan routes, in any interleaving.                    *)
(***************************************************************************)
\* what a feed answers
Feeds == { FeedFail, Feed(<< EntryB >>), Feed(<< EntryA, EntryC >>) }

\* an answer may be a failure while the behaviour has failures left
MayFail(ok) == ok \/ faults < MaxFaults

MayStart == invocations < MaxInvocations

Next ==
    \/ \E t \in Tasks : MayStart /\ ForceScan(t)
    \/ \E t \in Tasks : MayStart /\ ScheduledScan(t)
    \/ \E t \in Tasks : MayStart /\ ScrapeRoute(t)
    \/ \E t \in Tasks : MayStart /\ ScanRoute(t)
    \/ \E t \in Tasks, o \in Feeds : MayFail(o.ok) /\ FetchReturn(t, o)
    \/ \E t \in Tasks, ok \in BOOLEAN : MayFail(ok) /\ GenReturn(t, ok)
    \/ \E t \in Tasks, ok \in BOOLEAN : MayFail(ok) /\ DiverseReturn(t, ok)
    \/ \E t \in Tasks, ok \in BOOLEAN : MayFail(ok) /\ CreateReturn(t, ok)
    \/ \E t \in Tasks : DelayDone(t)
    \/ Tick

Spec == Init /\ [][Next]_vars

(***************************************************************************)
(* The live ingest on its own: the scrape route called again and again,    *)
(* one call after the other, with feeds that overflow the dedup cache.     *)
(***************************************************************************)
MaxCycles == 3         \* ingests in one behaviour

IngestFeeds ==
    { FeedFail, Feed(<< EntryA, EntryB >>), Feed(<< EntryC, EntryD >>),
      Feed(<< EntryE, EntryA >>), Feed(<< EntryD, EntryB, EntryE >>) }

IngestInit ==
    /\ InitServices
    /\ env = [ google |-> FALSE, anthropic |-> FALSE, useDemo |-> FALSE ]
    /\ ScorerIdle

IngestNext ==
    \/ invocations < MaxCycles /\ ScrapeRoute(1)
    \/ \E o \in IngestFeeds : MayFail(o.ok) /\ FetchReturn(1, o)
    \/ Tick

IngestSpec == IngestInit /\ [][IngestNext]_vars

(***************************************************************************)
(* The scorer on its own: a text is put together from fragments and        *)
(* scored for one of the configured sources.                               *)
(***************************************************************************)
MaxFragments == 2      \* fragments in one text

Fragments ==
    << "Zero-Knowledge", "Tornado Cash", "privacy-preserving", "homomorphic zk-SNARK mixer",
       "ENCRYPTION", "sanctions", "lawsuit", "weather" >>

RECURSIVE JoinText(_)
JoinText(frags) ==
    IF frags = << >> THEN ""
    ELSE IF Len(frags) = 1 THEN Fragments[frags[1]]
    ELSE Fragments[frags[1]] \o " " \o JoinText(Tail(frags))

\* scoreRelevance of every text of the model for every source, computed once
FragmentSeqs == UNION { [ 1..n -> 1..Len(Fragments) ] : n \in 0..MaxFragments }

ScorerTable ==
    [ p \in FragmentSeqs \X (1..Len(sources)) |->
        scoreRelevance(JoinText(p[1]), sources[p[2]].keywords, sources[p[2]].weight10) ]
    @@ << >>

scorerFrame ==
    UNCHANGED << isRunning, lastScanTime, marketsCreated, scanHistory, scraperVars,
                 env, now, provider, tasks, lastResult, invocations, faults, histVars,
                 gen >>

\* one more fragment in the text
ScAppend(k) ==
    /\ sc_out = << >>
    /\ Len(sc_frags) < MaxFragments
    /\ sc_frags' = Append(sc_frags, k)
    /\ UNCHANGED << sc_src, sc_out, sc_prev >>
    /\ scorerFrame

\* news-scraper.ts:258-263: scoreRelevance(text, source.keywords, source.weight)
ScApply(s) ==
    /\ sc_out = << >>
    /\ sc_src' = s
    /\ sc_out' = << ScorerTable[<< sc_frags, s >>] >>
    /\ UNCHANGED << sc_frags, sc_prev >>
    /\ scorerFrame

\* the scored text with one more fragment, scored for the same source
ScExtend(k) ==
    /\ sc_out # << >>
    /\ Len(sc_frags) < MaxFragments
    /\ sc_frags' = Append(sc_frags, k)
    /\ sc_prev' = sc_out
    /\ sc_out' = << ScorerTable[<< Append(sc_frags, k), sc_src >>] >>
    /\ UNCHANGED sc_src
    /\ scorerFrame

\* another text, the last fragment replaced, scored for the same source
ScSwap(k) ==
    /\ sc_out # << >>
    /\ sc_frags # << >>
    /\ sc_frags[Len(sc_frags)] # k
    /\ sc_frags' = [ sc_frags EXCEPT ![Len(sc_frags)] = k ]
    /\ sc_prev' = sc_out
    /\ sc_out' = << ScorerTable[<< [ sc_frags EXCEPT ![Len(sc_frags)] = k ], sc_src >>] >>
    /\ UNCHANGED sc_src
    /\ scorerFrame

ScorerInit ==
    /\ InitServices
    /\ env = [ google |-> FALSE, anthropic |-> FALSE, useDemo |-> FALSE ]
    /\ ScorerIdle

ScorerNext ==
    \/ \E k \in 1..Len(Fragments) : ScAppend(k)
    \/ \E s \in 1..Len(sources) : ScApply(s)
    \/ \E k \in 1..Len(Fragments) : ScExtend(k)
    \/ \E k \in 1..Len(Fragments) : ScSwap(k)

ScorerSpec == ScorerInit /\ [][ScorerNext]_vars

(***************************************************************************)
(* forceScan called again and again in demo mode with the fallback         *)
(* generator, each call after the one before has returned.                 *)
(***************************************************************************)
HistoryShown == 10

\* part_003:312-322: what getStatus shows of the two lists
getStatus(history, created) ==
    [ scanHistory |-> TakeLast(history, HistoryShown),
      marketsCreated |-> Len(created) ]

HistoryInit ==
    /\ InitServices
    /\ env = [ google |-> FALSE, anthropic |-> FALSE, useDemo |-> TRUE ]
    /\ ScorerIdle

HistoryNext ==
    \/ Len(scanHistory) <= HistoryShown /\ ForceScan(1)
    \/ \E ok \in BOOLEAN : MayFail(ok) /\ CreateReturn(1, ok)
    \/ DelayDone(1)

HistorySpec == HistoryInit /\ [][HistoryNext]_vars

(***************************************************************************)
(* The provider singleton while keys appear in the environment: index.ts   *)
(* loads .env files into process.env, which stays a mutable global, and    *)
(* the AIProviderService is built on the first use of aiProvider.instance. *)
(***************************************************************************)
\* index.ts:13-19: dotenv.config adds the keys that process.env does not hold
LoadEnv ==
    /\ \E g \in BOOLEAN, a \in BOOLEAN :
          /\ env.google => g
          /\ env.anthropic => a
          /\ g # env.google \/ a # env.anthropic
          /\ env' = [ env EXCEPT !.google = g, !.anthropic = a ]
    /\ UNCHANGED << isRunning, lastScanTime, marketsCreated, scanHistory, scraperVars,
                    now, provider, tasks, lastResult, invocations, faults, histVars,
                    unitVars >>

ProviderInit ==
    /\ InitServices
    /\ env \in { [ google |-> g, anthropic |-> a, useDemo |-> d ] :
                   g \in BOOLEAN, a \in BOOLEAN, d \in BOOLEAN }
    /\ ScorerIdle

ProviderNext ==
    \/ LoadEnv
    \/ MayStart /\ ScanRoute(1)
    \/ \E o \in Feeds : MayFail(o.ok) /\ FetchReturn(1, o)
    \/ \E ok \in BOOLEAN : MayFail(ok) /\ GenReturn(1, ok)
    \/ \E ok \in BOOLEAN : MayFail(ok) /\ DiverseReturn(1, ok)

ProviderSpec == ProviderInit /\ [][ProviderNext]_vars

(***************************************************************************)
(* AIProviderService called directly (part_003:481-507, 702-744), as the   *)
(* object aiProvider offers it: generateFromTopic and                      *)
(* generateDiverseMarkets, from the call to each await of the remote       *)
(* provider and on.                                                        *)
(***************************************************************************)
MaxCount == 6          \* largest count passed to generateDiverseMarkets

\* the topics passed to generateFromTopic, and the optional category
TopicInputs == { "Will ETF approval happen", "Will ETF approval happen?", topics[4] }

CategoryInputs == { "", "regulation" }

\* What a remote completion decodes to: the object the prompt asks for, an
\* object whose question is not a question, an object whose fields are not the
\* ones the prompt lists, or nothing because the request or JSON.parse threw
\* (lines 513-570).
RemoteAnswers == { "market", "odd", "wild", "throw" }

OddMarket == [ RemoteMarket EXCEPT !.question = "Privacy coins delisted" ]

\* valid JSON that JSON.parse accepts (lines 542, 569) with a category and
\* numbers the prompt does not allow
WildMarket ==
    [ RemoteMarket EXCEPT !.category = "sports", !.categoryName = "Sports",
                          !.suggestedDurationDays = 7,
                          !.suggestedLiquidityUSDC = 50000 ]

\* lines 542, 569: JSON.parse of the completion, returned as it is
Decoded(a) ==
    CASE a = "market" -> RemoteMarket
      [] a = "odd" -> OddMarket
      [] OTHER -> WildMarket

\* lines 493-506: the result of generateFromTopic when the provider answered a
TopicResult(a, topic) ==
    IF a = "throw" THEN [ success |-> FALSE, error |-> "generation failed" ]
    ELSE [ success |-> TRUE,
           market |-> WithSourceTopic(Decoded(a), topic) ]

genFrame ==
    UNCHANGED << isRunning, lastScanTime, marketsCreated, scanHistory, scraperVars,
                 env, now, tasks, lastResult, invocations, faults, histVars, scorerVars >>

\* lines 481-507 up to the await of the remote provider; the fallback returns
TopicCall(topic, category) ==
    /\ gen.pc = "idle"
    /\ provider' = Instance(provider, env)
    /\ gen' = IF Instance(provider, env) = "fallback"
              THEN [ gen EXCEPT !.pc = "done", !.kind = "topic", !.topic = topic,
                                !.category = category,
                                !.out = << [ success |-> TRUE,
                                             market |-> WithSourceTopic(
                                                 generateTopicFallback(topic, category),
                                                 topic) ] >> ]
              ELSE [ gen EXCEPT !.pc = "topic", !.kind = "topic", !.topic = topic,
                                !.category = category ]
    /\ genFrame

\* lines 493-506: the remote provider answers generateFromTopic
TopicAnswer(a) ==
    /\ gen.pc = "topic"
    /\ gen' = [ gen EXCEPT !.pc = "done", !.out = << TopicResult(a, gen.topic) >> ]
    /\ UNCHANGED provider
    /\ genFrame

\* lines 726-743 for a count of the caller: about to take topics[i], or done
GenDiverseLoop(g, i, results) ==
    IF i <= Min(g.count, Len(topics))
    THEN [ g EXCEPT !.pc = "div", !.i = i, !.results = results ]
    ELSE [ g EXCEPT !.pc = "done", !.results = results,
                    !.out = DiverseResults(results, g.count) ]

\* lines 702-726: generateDiverseMarkets(count) up to its first await
DiverseCall(count) ==
    /\ gen.pc = "idle"
    /\ provider' = Instance(provider, env)
    /\ gen' = IF Instance(provider, env) = "fallback"
              THEN [ gen EXCEPT !.pc = "done", !.kind = "diverse", !.count = count,
                                !.out = DemoResults(count) ]
              ELSE GenDiverseLoop([ gen EXCEPT !.kind = "diverse", !.count = count ],
                                  1, << >>)
    /\ genFrame

\* lines 727-734: the remote provider answers the generateFromTopic of topics[i]
DiverseAnswer(a) ==
    /\ gen.pc = "div"
    /\ gen' = GenDiverseLoop(gen, gen.i + 1,
                             Append(gen.results, TopicResult(a, topics[gen.i])))
    /\ UNCHANGED provider
    /\ genFrame

\* the caller has the result; the next call can be made
GenNext ==
    /\ gen.pc = "done"
    /\ gen' = GenIdle
    /\ UNCHANGED provider
    /\ genFrame

GeneratorInit ==
    /\ InitServices
    /\ env \in { [ google |-> g, anthropic |-> a, useDemo |-> FALSE ] :
                   g \in BOOLEAN, a \in BOOLEAN }
    /\ ScorerIdle

GeneratorNext ==
    \/ \E topic \in TopicInputs, category \in CategoryInputs : TopicCall(topic, category)
    \/ \E a \in RemoteAnswers : TopicAnswer(a)
    \/ \E count \in 0..MaxCount : DiverseCall(count)
    \/ \E a \in RemoteAnswers : DiverseAnswer(a)
    \/ GenNext

GeneratorSpec == GeneratorInit /\ [][GeneratorNext]_vars

(***************************************************************************)
(* One forceScan after the other with a remote provider that can fail at   *)
(* every call.                                                             *)
(***************************************************************************)
MaxGenFaults == 6      \* collaborator calls that fail in one behaviour

CallMayFail(ok) == ok \/ faults < MaxGenFaults

CycleInit ==
    /\ InitServices
    /\ env \in { [ google |-> FALSE, anthropic |-> a, useDemo |-> d ] :
                   a \in BOOLEAN, d \in BOOLEAN }
    /\ ScorerIdle

CycleNext ==
    \/ MayStart /\ ForceScan(1)
    \/ \E o \in Feeds : MayFail(o.ok) /\ FetchReturn(1, o)
    \/ \E ok \in BOOLEAN : CallMayFail(ok) /\ GenReturn(1, ok)
    \/ \E ok \in BOOLEAN : CallMayFail(ok) /\ DiverseReturn(1, ok)
    \/ \E ok \in BOOLEAN : MayFail(ok) /\ CreateReturn(1, ok)
    \/ DelayDone(1)

CycleSpec == CycleInit /\ [][CycleNext]_vars

(***************************************************************************)
(* The pipeline when every awaited call is answered and every timer fires: *)
(* the feed parser has a timeout, the remote calls resolve or reject, and  *)
(* setTimeout calls back.                                                  *)
(***************************************************************************)
Resume(t) ==
    \/ \E o \in Feeds : MayFail(o.ok) /\ FetchReturn(t, o)
    \/ \E ok \in BOOLEAN : MayFail(ok) /\ GenReturn(t, ok)
    \/ \E ok \in BOOLEAN : MayFail(ok) /\ DiverseReturn(t, ok)
    \/ \E ok \in BOOLEAN : MayFail(ok) /\ CreateReturn(t, ok)
    \/ DelayDone(t)

\* the triggers of a cycle, and what resumes one
FairNext ==
    \/ \E t \in Tasks : MayStart /\ ForceScan(t)
    \/ \E t \in Tasks : MayStart /\ ScheduledScan(t)
    \/ \E t \in Tasks : Resume(t)

FairSpec == Init /\ [][FairNext]_vars /\ \A t \in Tasks : WF_vars(Resume(t))

(***************************************************************************)
(* Properties                                                              *)
(***************************************************************************)
\* the invocations in flight that are cycles: forceScan or the cron callback
Cycles == { t \in Tasks : tasks[t].kind \in { "force", "cron" } }

\* the invocations in flight that are inside the live ingest
Ingesting == { t \in Tasks : tasks[t].pc = "fetch" }

\* C1: under any interleaving of cron triggers and forceScan calls at most one
\* cycle body is executing, and isRunning is set exactly while one is: a
\* trigger that arrives while the flag is set starts no second cycle.
SingleFlight ==
    /\ Cardinality(Cycles) <= 1
    /\ isRunning <=> Cycles # {}

\* a forceScan was turned away while a cron cycle was in flight
RejectedDuringCron ==
    /\ lastResult.kind = "busy"
    /\ \E t \in Tasks : tasks[t].kind = "cron"

\* C2: a forceScan that finds a cycle in flight answers success = false with
\* zero newsFound and opportunitiesFound and no marketsCreated, and leaves
\* scanHistory, lastScanTime, marketsCreated, the dedup cache, the recent
\* events, the invocations in flight and isRunning as they were.
BusyChangesNothing ==
    [][ (lastResult'.kind = "busy" /\ lastResult.kind # "busy")
        => /\ isRunning
           /\ lastResult' = [ kind |-> "busy", success |-> FALSE, newsFound |-> 0,
                              opportunitiesFound |-> 0, marketsCreated |-> << >> ]
           /\ UNCHANGED << isRunning, lastScanTime, marketsCreated, scanHistory,
                           seenIds, recentEvents, tasks >> ]_vars

\* a forceScan was turned away while a cycle was in its live ingest with ids
\* in the dedup cache
RejectedMidIngest ==
    /\ lastResult.kind = "busy"
    /\ isRunning
    /\ seenIds # << >>
    /\ \E t \in Cycles : tasks[t].pc = "fetch"

\* C3: every cycle that has set isRunning clears it again, whatever fails on
\* the way, and forceScan is turned away only while a cycle is in flight, so
\* the trigger after the return is accepted.
CycleReturns ==
    /\ isRunning ~> ~isRunning
    /\ [][ (lastResult'.kind = "busy" /\ lastResult.kind # "busy") => isRunning ]_vars

\* a cycle has returned after one of its awaited calls failed
ReturnedAfterFailure ==
    /\ lastResult.kind \in { "force", "cron" }
    /\ faults > 0
    /\ ~isRunning
    /\ Cycles = {}

\* C4: the dedup cache and the recent events are written only inside a guarded
\* cycle: every invocation inside the live ingest is a cycle, and two
\* invocations are never inside the live ingest together.
IngestOnlyInCycle ==
    /\ \A t \in Ingesting : tasks[t].kind \in { "force", "cron" }
    /\ Cardinality(Ingesting) <= 1

\* C5: a cycle that completes, scheduled or on demand, appends exactly one
\* record to scanHistory and sets lastScanTime.
EveryCycleRecorded ==
    [][ \A t \in Tasks :
          (tasks[t].kind \in { "force", "cron" } /\ tasks'[t].kind = "none")
          => /\ Len(scanHistory') = Len(scanHistory) + 1
             /\ lastScanTime' = now ]_vars

\* C6: scanHistory never holds more records than the ten that getStatus shows.
HistoryBounded == Len(scanHistory) <= HistoryShown

\* C7: every id that was added to the dedup cache is still in it, unless a
\* batch eviction since that add dropped it as one of the oldest.
CacheRemembers == added \subseteq (ToSet(seenIds) \cup evicted)

\* a batch eviction has dropped ids that were added
CacheHasEvicted ==
    /\ evicted # {}
    /\ added \ ToSet(seenIds) # {}

\* C8: an entry whose id was returned by an earlier ingest, and has not been
\* evicted since, is not pushed by a later ingest.
NeverReturnedTwice == again = {}

\* a later ingest has fetched an entry again that an earlier one returned, and
\* skipped it
FetchedAgain == refetched # {}

\* C9: the dedup cache never holds more than SeenCap ids; an add that takes it
\* above SeenCap leaves exactly the newest SeenKeep ids, in order, the added id
\* among them; any other add leaves the cache with the id appended.
CacheBounded ==
    /\ Len(seenIds) <= SeenCap
    /\ \A k \in 1..Len(addLog) :
          /\ Len(addLog[k].after) <= SeenCap
          /\ addLog[k].id \in ToSet(addLog[k].after)
          /\ IF Len(addLog[k].before) + 1 > SeenCap
             THEN addLog[k].after =
                     TakeLast(Append(addLog[k].before, addLog[k].id), SeenKeep)
             ELSE addLog[k].after = Append(addLog[k].before, addLog[k].id)

\* an add has taken the cache above SeenCap
CacheOverflowed ==
    \E k \in 1..Len(addLog) : Len(addLog[k].before) = SeenCap

\* C10: every score the scorer returns for a configured source is an integer
\* from 0 to 100, also when the weighted sum of the matches is above 100, and
\* every news item held by an invocation or by the recent events carries such
\* a score.
ScoreInRange ==
    /\ \A k \in 1..Len(sc_out) : sc_out[k].score \in 0..100
    /\ \A k \in 1..Len(recentEvents) : recentEvents[k].relevanceScore \in 0..100
    /\ \A t \in Tasks :
          /\ \A k \in 1..Len(tasks[t].allNews) : tasks[t].allNews[k].relevanceScore \in 0..100
          /\ \A k \in 1..Len(tasks[t].news) : tasks[t].news[k].relevanceScore \in 0..100

\* a text was scored whose weighted sum is above 100, and the score is 100
ScoreClamped ==
    /\ sc_out # << >>
    /\ RoundWeighted(RawScore(JoinText(sc_frags), sources[sc_src].keywords).score,
                     sources[sc_src].weight10) > 100
    /\ sc_out[1].score = 100

\* C11: for one source, a text whose matched keywords include those of another
\* text does not score below it.
ScoreMonotone ==
    (sc_prev # << >> /\ sc_out # << >>
       /\ ToSet(sc_prev[1].matchedKeywords) \subseteq ToSet(sc_out[1].matchedKeywords))
    => sc_prev[1].score <= sc_out[1].score

\* a fragment that matches more keywords was added to a scored text, and the
\* score went up
ScoreWentUp ==
    /\ sc_prev # << >>
    /\ sc_out # << >>
    /\ ToSet(sc_prev[1].matchedKeywords) \subseteq ToSet(sc_out[1].matchedKeywords)
    /\ ToSet(sc_prev[1].matchedKeywords) # ToSet(sc_out[1].matchedKeywords)
    /\ sc_prev[1].matchedKeywords # << >>
    /\ sc_prev[1].score < sc_out[1].score

\* the hits of each category in a lower-cased text, and the most of them
CategoryHits(text) ==
    [ c \in ToSet(CATEGORY_ORDER) |-> CountHits(text, CATEGORY_KEYWORDS[c]) ]

MostHits(hits) ==
    Max(Max(hits["regulation"], hits["technology"]),
        Max(hits["adoption"], hits["events"]))

\* the text matches no entry of PRIVACY_KEYWORDS and no keyword of the source
MatchesNothing(text, src) ==
    /\ \A k \in 1..Len(PRIVACY_KEYWORDS) : ~includes(text, PRIVACY_KEYWORDS[k].kw)
    /\ \A k \in 1..Len(sources[src].keywords) :
          ~includes(text, toLowerCase(sources[src].keywords[k]))

\* the category is the first, in the order regulation, technology, adoption,
\* events, of those with the most hits, and technology without any hit
CategoryRule(hits, most, category) ==
    IF most = 0 THEN category = "technology"
    ELSE \E i \in 1..Len(CATEGORY_ORDER) :
            /\ category = CATEGORY_ORDER[i]
            /\ hits[CATEGORY_ORDER[i]] = most
            /\ \A j \in 1..(i - 1) : hits[CATEGORY_ORDER[j]] < most

ScoreRule(text, hits, out, src) ==
    /\ CategoryRule(hits, MostHits(hits), out.suggestedCategory)
    /\ (MostHits(hits) = 0 /\ MatchesNothing(text, src))
          => (out.score = 0 /\ out.suggestedCategory = "technology")

TieByOrder(hits, most, category) ==
    /\ most > 0
    /\ hits["regulation"] = most
    /\ hits["events"] = most
    /\ category = "regulation"

\* C12: a text that matches no keyword gets score 0 and the category
\* technology; a text with category keywords gets the category with the most
\* of them, the first of these in the order regulation, technology, adoption,
\* events; a text without category keywords gets technology.
CategoryByHits ==
    sc_out # << >> =>
       ScoreRule(toLowerCase(JoinText(sc_frags)),
                 CategoryHits(toLowerCase(JoinText(sc_frags))), sc_out[1], sc_src)

\* a text was scored in which regulation and events have the most hits, both
\* as many, and the category is regulation
CategoryTieByOrder ==
    /\ sc_out # << >>
    /\ TieByOrder(CategoryHits(toLowerCase(JoinText(sc_frags))),
                  MostHits(CategoryHits(toLowerCase(JoinText(sc_frags)))),
                  sc_out[1].suggestedCategory)

\* a text without any keyword was scored: score 0, category technology
NothingMatched ==
    /\ sc_out # << >>
    /\ sc_frags # << >>
    /\ MostHits(CategoryHits(toLowerCase(JoinText(sc_frags)))) = 0
    /\ MatchesNothing(toLowerCase(JoinText(sc_frags)), sc_src)
    /\ sc_out[1].score = 0

\* a candidate at or above the minimum score, published less than the recency
\* window before the ingest returned
Qualifies(n, at) == n.relevanceScore >= MinScore /\ at - n.publishedAt < RecencyWindow

RankedRule(all, ret, at) ==
    /\ Len(ret) <= MaxNews
    /\ \A i \in 1..Len(ret) : ret[i] \in ToSet(all) /\ Qualifies(ret[i], at)
    /\ \A i \in 1..(Len(ret) - 1) : ret[i].relevanceScore >= ret[i + 1].relevanceScore
    /\ \A k \in 1..Len(all) :
          (Qualifies(all[k], at) /\ all[k] \notin ToSet(ret))
             => \A i \in 1..Len(ret) : all[k].relevanceScore <= ret[i].relevanceScore

\* C13: the list scrapeAllSources returns has at most MaxNews candidates of
\* the ingest, each at or above the minimum score and within the recency
\* window, in non-increasing score order; no qualifying candidate that was
\* left out scores higher than a returned one.
IngestRanked ==
    lastIngest.done => RankedRule(lastIngest.all, lastIngest.ret, lastIngest.at)

\* an ingest returned a full list, left out a qualifying candidate with a lower
\* score that came before a returned one, and had a candidate too old to return
IngestCutOff ==
    /\ lastIngest.done
    /\ Len(lastIngest.ret) = MaxNews
    /\ \E k \in 1..Len(lastIngest.all) : \E j \in (k + 1)..Len(lastIngest.all) :
          /\ Qualifies(lastIngest.all[k], lastIngest.at)
          /\ lastIngest.all[k] \notin ToSet(lastIngest.ret)
          /\ lastIngest.all[j] \in ToSet(lastIngest.ret)
          /\ lastIngest.all[k].relevanceScore < lastIngest.all[j].relevanceScore

\* an ingest had a candidate above the minimum score that was too old to return
IngestTooOld ==
    /\ lastIngest.done
    /\ \E k \in 1..Len(lastIngest.all) :
          /\ lastIngest.all[k].relevanceScore >= MinScore
          /\ ~Qualifies(lastIngest.all[k], lastIngest.at)
          /\ lastIngest.all[k] \notin ToSet(lastIngest.ret)

\* the items of the feeds of one ingest, in the order of the sources
RECURSIVE Contributions(_)
Contributions(log) ==
    IF log = << >> THEN << >>
    ELSE Contributions(SubSeq(log, 1, Len(log) - 1)) \o log[Len(log)].items

\* the entries of a feed that an ingest has to return as candidates: those of
\* the first FeedItemCap whose id the cache did not hold and that score at or
\* above the minimum for the source
Expected(rec) ==
    { k \in 1..Min(Len(rec.offered), FeedItemCap) :
        /\ EntryId(rec.offered[k], sources[rec.src].name, rec.at) \notin rec.seen
        /\ \A j \in 1..(k - 1) :
              EntryId(rec.offered[j], sources[rec.src].name, rec.at)
                 # EntryId(rec.offered[k], sources[rec.src].name, rec.at)
        /\ ScoreTable[rec.src][EntryText(rec.offered[k])].score >= MinScore }

FeedRule(rec) ==
    /\ ~rec.ok => rec.items = << >>
    /\ \A k \in Expected(rec) : \E i \in 1..Len(rec.items) :
          /\ rec.items[i].id = EntryId(rec.offered[k], sources[rec.src].name, rec.at)
          /\ rec.items[i].source = sources[rec.src].name
    /\ \A i \in 1..Len(rec.items) : \E k \in 1..Min(Len(rec.offered), FeedItemCap) :
          /\ rec.items[i].id = EntryId(rec.offered[k], sources[rec.src].name, rec.at)
          /\ rec.items[i].relevanceScore >= MinScore

\* C14: an ingest that returned has processed every source in turn; a feed
\* that failed contributed nothing, every other feed contributed its
\* qualifying candidates, and the invocation returned with success.
FailureContained ==
    lastIngest.done =>
       /\ Len(lastIngest.log) = NumSources
       /\ \A s \in 1..Len(lastIngest.log) :
             lastIngest.log[s].src = s /\ FeedRule(lastIngest.log[s])
       /\ lastIngest.all = Contributions(lastIngest.log)
       /\ lastResult.kind = "scrape" /\ lastResult.success

\* the first feed of an ingest failed, the second contributed a candidate, and
\* the ingest returned it
FailedFeedSkipped ==
    /\ lastIngest.done
    /\ Len(lastIngest.log) = NumSources
    /\ ~lastIngest.log[1].ok
    /\ lastIngest.log[2].items # << >>
    /\ lastIngest.ret # << >>
    /\ lastIngest.ret[1] \in ToSet(lastIngest.log[2].items)
    /\ lastResult.success

\* the events inserted up to the last ingest that the buffer can tell apart,
\* oldest first: those it held before, then the candidates of the ingest
Inserted == Reverse(lastIngest.before) \o lastIngest.all

\* C15: the recent events are never more than maxEvents; after an ingest they
\* are the latest inserted events, the latest first, so the ones dropped are
\* the oldest inserted, and a query for n events returns the n latest, the
\* latest first.
RingBuffer ==
    /\ Len(recentEvents) <= maxEvents
    /\ lastIngest.done =>
          /\ Len(recentEvents) = Min(Len(Inserted), maxEvents)
          /\ \A n \in 0..(maxEvents + 1) :
                /\ Len(getRecentEvents(recentEvents, n)) = Min(n, Len(recentEvents))
                /\ \A i \in 1..Len(getRecentEvents(recentEvents, n)) :
                      getRecentEvents(recentEvents, n)[i] = Inserted[Len(Inserted) + 1 - i]

\* an ingest with two candidates or more met a buffer that was not empty and
\* overflowed it
BufferOverflowed ==
    /\ lastIngest.done
    /\ lastIngest.before # << >>
    /\ Len(lastIngest.all) >= 2
    /\ Len(Inserted) > maxEvents
    /\ Len(recentEvents) = maxEvents
    /\ recentEvents[1] = lastIngest.all[Len(lastIngest.all)]

\* the variant that the keys of the environment call for: Gemini with a
\* Google key, else Anthropic with an Anthropic key, else the fallback
ByCredentials(e) ==
    CASE e.google -> "gemini"
      [] ~e.google /\ e.anthropic -> "anthropic"
      [] OTHER -> "fallback"

\* C16: the provider is selected once, by the keys present at that moment in
\* the order Gemini, Anthropic, fallback, and no later step changes it,
\* whether generation calls succeed or fail.
ProviderFixed ==
    [][ /\ provider # "unset" => provider' = provider
        /\ (provider = "unset" /\ provider' # "unset") => provider' = ByCredentials(env)
      ]_vars

\* the provider was selected without keys; since then a key has appeared, a
\* generation call has failed and another invocation has begun
ProviderKeptAfterChange ==
    /\ provider = "fallback"
    /\ ByCredentials(env) # provider
    /\ invocations = MaxInvocations

\* a remote provider was selected; a generation call has failed, and a key
\* that comes first in the order has appeared since
RemoteKeptAfterFailure ==
    /\ provider = "anthropic"
    /\ env.google
    /\ faults > 0
    /\ lastResult.kind = "scan"

\* C17: generateFromTopic returns a question that ends in "?"; with the
\* fallback provider it is the topic itself when the topic ends in "?", and
\* the topic with "?" appended otherwise.
TopicQuestionMarked ==
    (gen.pc = "done" /\ gen.kind = "topic" /\ gen.out[1].success) =>
       /\ endsWith(gen.out[1].market.question, "?")
       /\ provider = "fallback" =>
             gen.out[1].market.question =
                IF endsWith(gen.topic, "?") THEN gen.topic ELSE gen.topic \o "?"

\* the size of the list that generateDiverseMarkets draws from: the demo
\* markets with the fallback provider, the topics with a remote one
ListSize(p) == IF p = "fallback" THEN Len(getDemoMarkets) ELSE Len(topics)

\* C18: generateDiverseMarkets(n) returns exactly n results for n up to the
\* size of its list; when every generation call failed, the results are demo
\* markets, not empty and each a success.
DiverseExact ==
    (gen.pc = "done" /\ gen.kind = "diverse") =>
       /\ gen.count <= ListSize(provider) => Len(gen.out) = gen.count
       /\ (gen.results # << >> /\ \A k \in 1..Len(gen.results) : ~gen.results[k].success)
             => /\ gen.out # << >>
                /\ \A k \in 1..Len(gen.out) :
                      gen.out[k].success /\ gen.out[k].market \in ToSet(getDemoMarkets)

\* the news items after position i that are passed to the generator
Selected(tk, i) ==
    { k \in (i + 1)..Min(TopNews, Len(tk.news)) :
         tk.news[k].relevanceScore > OpportunityScore }

\* the invocation of slot t has gone on from tk to tk2 without losing an
\* opportunity, or has returned with success and as many opportunities
KeepsOpps(t, tk, tk2, result) ==
    IF tk2.kind = "none"
    THEN result.success /\ result.opportunitiesFound >= Len(tk.opps)
    ELSE /\ Len(tk2.opps) >= Len(tk.opps)
         /\ SubSeq(tk2.opps, 1, Len(tk.opps)) = tk.opps

GenFailureRule(t, tk, tk2, result) ==
    /\ Selected(tk, tk.i) # {} =>
          /\ tk2.pc = "gen"
          /\ tk2.i = CHOOSE k \in Selected(tk, tk.i) : \A j \in Selected(tk, tk.i) : k <= j
          /\ tk2.opps = tk.opps
    /\ KeepsOpps(t, tk, tk2, result)

DiverseFailureRule(t, tk, tk2, result) ==
    /\ tk.i < Min(DiverseCount, Len(topics)) =>
          /\ tk2.pc = "div"
          /\ tk2.i = tk.i + 1
          /\ Len(tk2.results) = Len(tk.results) + 1
          /\ SubSeq(tk2.results, 1, Len(tk.results)) = tk.results
          /\ ~tk2.results[Len(tk2.results)].success
    /\ KeepsOpps(t, tk, tk2, result)

\* C19: when a generation call fails, the next selected item is passed to the
\* generator, the opportunities produced so far are kept, and the invocation
\* does not fail.
FailureDropsOneItem ==
    [][ \A t \in Tasks :
          (faults' = faults + 1 /\ tasks'[t] # tasks[t]) =>
             /\ tasks[t].pc = "gen" => GenFailureRule(t, tasks[t], tasks'[t], lastResult')
             /\ tasks[t].pc = "div" => DiverseFailureRule(t, tasks[t], tasks'[t], lastResult')
      ]_vars

\* with demo news and a remote provider, a call for one of the first two items
\* has failed, the other produced an opportunity, and the third is awaited
ThirdItemAfterFailure ==
    /\ env.useDemo
    /\ tasks[1].pc = "gen"
    /\ tasks[1].i = 3
    /\ Len(tasks[1].opps) = 1
    /\ faults = 1

\* identifyMarketOpportunities has returned in the invocation tk
Identified(tk) == tk.kind # "none" /\ tk.pc \in { "create", "delay", "return" }

NewsDerived(opps) == { k \in 1..Len(opps) : opps[k].sourceNews # NoRef }

\* C20: when no opportunity came from the news, generateDiverseMarkets has
\* been called and the opportunities are not empty: a cycle that has got
\* past identifyMarketOpportunities has an opportunity, and a cycle that has
\* returned found one.
NeverEmptyHanded ==
    /\ \A t \in Tasks :
          Identified(tasks[t]) =>
             /\ tasks[t].opps # << >>
             /\ NewsDerived(tasks[t].opps) = {} => tasks[t].results # << >>
    /\ (lastResult.kind = "force" /\ lastResult.success) => lastResult.opportunitiesFound > 0

\* the ingest returned a candidate, every generation call for the news and
\* for the topics failed, and the cycle has the demo opportunities
DemoAfterAllFailed ==
    /\ ~env.useDemo
    /\ lastIngest.done
    /\ lastIngest.ret # << >>
    /\ Identified(tasks[1])
    /\ tasks[1].news # << >>
    /\ faults >= 1 + DiverseCount
    /\ Len(tasks[1].opps) = DiverseCount
    /\ \A k \in 1..Len(tasks[1].results) : tasks[1].results[k].market \in ToSet(getDemoMarkets)

\* the ingest returned a candidate below the secondary threshold only, and the
\* cycle has opportunities from generateDiverseMarkets
DiverseAfterLowScore ==
    /\ lastIngest.done
    /\ lastIngest.ret # << >>
    /\ \A k \in 1..Len(lastIngest.ret) : lastIngest.ret[k].relevanceScore <= OpportunityScore
    /\ Identified(tasks[1])
    /\ tasks[1].opps # << >>
    /\ NewsDerived(tasks[1].opps) = {}

\* the invocations that wait for createPrivacyMarket to answer
Creating == { t \in Tasks : tasks[t].pc = "create" }

\* a call of createPrivacyMarket begins in slot t in this step
CreateBegins(t) ==
    /\ tasks'[t].pc = "create"
    /\ tasks[t].pc # "create" \/ tasks[t].j # tasks'[t].j

\* C21: a cycle calls createPrivacyMarket for its first MarketsPerScan
\* opportunities at most, in list order, and call k + 1 begins only when call
\* k has answered and the delay after it has elapsed; two calls are never in
\* flight together.
CreateSerialized ==
    [][ /\ Cardinality(Creating) <= 1
        /\ \A t \in Tasks :
              /\ tasks[t].pc \in { "create", "delay" } =>
                    /\ tasks[t].kind \in { "force", "cron" }
                    /\ tasks[t].j \in 1..Min(MarketsPerScan, Len(tasks[t].opps))
              /\ CreateBegins(t) =>
                    IF tasks'[t].j = 1
                    THEN tasks[t].pc \notin { "create", "delay" }
                    ELSE tasks[t].pc = "delay" /\ tasks'[t].j = tasks[t].j + 1
              /\ (tasks[t].pc = "create" /\ tasks'[t] # tasks[t]) => tasks'[t].pc = "delay"
      ]_vars

\* a scheduled cycle with three opportunities waits for its second and last
\* call of createPrivacyMarket, the first having created a market
SecondCreateInFlight ==
    \E t \in Tasks :
       /\ tasks[t].kind = "cron"
       /\ tasks[t].pc = "create"
       /\ tasks[t].j = MarketsPerScan
       /\ Len(tasks[t].opps) > MarketsPerScan
       /\ marketsCreated # << >>

\* C22: a call of createPrivacyMarket that fails adds nothing to the created
\* markets of the service or of the cycle; the cycle goes on with the delay
\* and then with the next of its first MarketsPerScan opportunities, and after
\* the last one a forceScan returns success with the markets it created.
CreateFailureSkipsOne ==
    [][ \A t \in Tasks :
          /\ (tasks[t].pc = "create" /\ faults' = faults + 1 /\ tasks'[t] # tasks[t]) =>
                /\ marketsCreated' = marketsCreated
                /\ tasks'[t] = [ tasks[t] EXCEPT !.pc = "delay" ]
          /\ (tasks[t].pc = "delay" /\ tasks'[t] # tasks[t]) =>
                IF tasks[t].j < Min(MarketsPerScan, Len(tasks[t].opps))
                THEN tasks'[t] = [ tasks[t] EXCEPT !.pc = "create", !.j = @ + 1 ]
                ELSE /\ tasks'[t].kind = "none"
                     /\ tasks[t].kind = "force" =>
                           /\ lastResult'.success
                           /\ lastResult'.marketsCreated = tasks[t].created
                           /\ lastResult'.opportunitiesFound = Len(tasks[t].opps)
      ]_vars

\* with demo news and the fallback generator, the first call of
\* createPrivacyMarket failed and the second created a market
SecondCreatedAfterFailure ==
    /\ env.useDemo
    /\ ~env.anthropic
    /\ tasks[1].kind = "force"
    /\ tasks[1].pc = "delay"
    /\ tasks[1].j = 2
    /\ faults = 1
    /\ Len(tasks[1].created) = 1
    /\ Len(marketsCreated) = 1

\* lines 379-388: the ranges the generation prompt states
MinDurationDays == 30
MaxDurationDays == 365
MinLiquidity == 1000
MaxLiquidity == 10000

urgencies == { "breaking", "timely", "evergreen" }

\* the market has a category and an urgency of the enumerations and a
\* duration and a liquidity within the ranges of the prompt
WithinContract(market) ==
    /\ market.category \in ToSet(categories)
    /\ market.urgency \in urgencies
    /\ market.suggestedDurationDays \in MinDurationDays..MaxDurationDays
    /\ market.suggestedLiquidityUSDC \in MinLiquidity..MaxLiquidity

\* C23: every market that generateFromTopic or generateDiverseMarkets returns
\* has its category and urgency in the enumerations, its duration within
\* 30..365 days and its liquidity within 1000..10000.
GeneratedWithinContract ==
    gen.pc = "done" =>
       \A k \in 1..Len(gen.out) :
          gen.out[k].success => WithinContract(gen.out[k].market)

\* confidences are counted in hundredths: 30 is 0.3, 100 is 1
ConfidenceFloor == 30
ConfidenceCeiling == 90
TopicConfidence == 70

\* relevanceScore / 100 brought into the floor and the ceiling
Clamped(relevanceScore) ==
    IF relevanceScore < ConfidenceFloor THEN ConfidenceFloor
    ELSE IF relevanceScore > ConfidenceCeiling THEN ConfidenceCeiling
    ELSE relevanceScore

\* the mapping of calculateConfidenceFromScore never decreases over 0..ScoreCap
ConfidenceMonotone ==
    \A a \in 0..ScoreCap, b \in 0..ScoreCap :
       a <= b => calculateConfidenceFromScore(a) <= calculateConfidenceFromScore(b)

\* the news items of the cycle that the reference of an opportunity names
Referred(tk, ref) ==
    { k \in 1..Len(tk.news) :
        /\ tk.news[k].title = ref.title
        /\ tk.news[k].source = ref.source
        /\ tk.news[k].link = ref.link }

\* C24: every opportunity of a cycle has a confidence within 0..1; one made
\* from a news item has relevanceScore/100 brought into 0.3..0.9, a mapping
\* that never decreases; one made from a topic has the fixed 0.7.
ConfidenceRule ==
    /\ ConfidenceMonotone
    /\ \A t \in Tasks : \A k \in 1..Len(tasks[t].opps) :
          LET opp == tasks[t].opps[k]
          IN  /\ opp.confidence \in 0..100
              /\ IF opp.sourceNews # NoRef
                 THEN /\ Referred(tasks[t], opp.sourceNews[1]) # { }
                      /\ \A n \in Referred(tasks[t], opp.sourceNews[1]) :
                            opp.confidence = Clamped(tasks[t].news[n].relevanceScore)
                 ELSE opp.confidence = TopicConfidence

\* an opportunity made from a news item of score above 90 has confidence 0.9,
\* and a cycle holds topic-based opportunities of confidence 0.7
ConfidenceAtCeiling ==
    \E k \in 1..Len(tasks[1].opps) :
       /\ tasks[1].opps[k].sourceNews # NoRef
       /\ tasks[1].opps[k].confidence = ConfidenceCeiling
       /\ \E n \in Referred(tasks[1], tasks[1].opps[k].sourceNews[1]) :
             tasks[1].news[n].relevanceScore > ConfidenceCeiling

\* the market carries the news reference or the topic, and not both
OneBackReference(market) ==
    (market.sourceNews # NoRef) # (market.sourceTopic # NoRef)

\* C25: every market that generateFromTopic or generateDiverseMarkets returns
\* carries exactly one of sourceNews and sourceTopic.
ExactlyOneSource ==
    gen.pc = "done" =>
       \A k \in 1..Len(gen.out) :
          gen.out[k].success => OneBackReference(gen.out[k].market)

\* the ids in the dedup cache that scrapeRSSSource gave to the entry when it
\* came from sources[s], at any time of the clock
CachedIdsOf(item, s) ==
    { id \in ToSet(seenIds) :
        \E t \in 0..MaxTime : id = EntryId(item, sources[s].name, t) }

\* C26: the id of an entry is its guid, else its link, else a synthesized
\* one, and the same entry of the same feed has the same id whenever it is
\* fetched: the dedup cache never holds two ids of one entry.
StableId ==
    \A item \in Entries, s \in 1..NumSources :
       /\ item.guid # "" => CachedIdsOf(item, s) \subseteq { item.guid }
       /\ (item.guid = "" /\ item.link # "") => CachedIdsOf(item, s) \subseteq { item.link }
       /\ Cardinality(CachedIdsOf(item, s)) <= 1

\* the record of the feed that the scrape route processed last, if any
LatestFeed ==
    IF feedLog[1] # << >> THEN { feedLog[1][Len(feedLog[1])] }
    ELSE IF lastIngest.done THEN { lastIngest.log[Len(lastIngest.log)] }
    ELSE { }

\* the ids of the entries of the feed that scrapeRSSSource went through
Processed(rec) ==
    { EntryId(rec.offered[k], sources[rec.src].name, rec.at) :
        k \in 1..Min(Len(rec.offered), FeedItemCap) }

\* the ids that the last call of scrapeRSSSource scored and added to the cache
Scored == { addLog[k].id : k \in 1..Len(addLog) }

\* C27: every entry that ingest goes through has its id in the dedup cache,
\* whatever its score: it was there when the feed answered or it was added
\* after scoring; an id that is in the cache is skipped and not scored again.
RegisteredRegardless ==
    /\ \A rec \in LatestFeed : Processed(rec) \subseteq rec.seen \cup Scored
    /\ \A k \in 1..Len(addLog) :
          /\ addLog[k].id \notin ToSet(addLog[k].before)
          /\ addLog[k].id \in ToSet(addLog[k].after)

\* an entry that scored below the threshold in an earlier ingest is offered
\* again while its id is in the cache, and is skipped
LowScoreSkipped ==
    \E rec \in LatestFeed :
       /\ rec.ok
       /\ \E k \in 1..Min(Len(rec.offered), FeedItemCap) :
             /\ rec.offered[k] = EntryC
             /\ ScoreTable[rec.src][EntryText(EntryC)].score < MinScore
             /\ EntryId(EntryC, sources[rec.src].name, rec.at) \in rec.seen \ Scored

\* the ids of a list of news items
IdsOf(news) == { news[k].id : k \in 1..Len(news) }

\* the feed of the record contributed the id, which was not in the dedup
\* cache when its entry was processed and was added then
RegisteredBy(rec, id) ==
    /\ id \in IdsOf(rec.items)
    /\ \E j \in 1..Len(rec.ops) :
          /\ rec.ops[j].id = id
          /\ id \notin ToSet(rec.ops[j].before)
          /\ id \in ToSet(rec.ops[j].after)

\* C28: an item that an ingest returns was registered by this very ingest: a
\* feed of it contributed the item and its id was not in the dedup cache when
\* the entry was processed.  So an entry whose id is in the cache, returned
\* before or dropped by the recency filter or by the cut to the maximum, is
\* not returned.
ReturnedOnlyWhenRegistered ==
    lastIngest.done =>
       \A k \in 1..Len(lastIngest.ret) :
          \E r \in 1..Len(lastIngest.log) :
             RegisteredBy(lastIngest.log[r], lastIngest.ret[k].id)

\* the last ingest was offered an entry that reaches the threshold and whose
\* id was in the cache without having been returned: the ingest that
\* registered it dropped it; the last ingest has not returned it either
DroppedStaysDropped ==
    /\ lastIngest.done
    /\ "g-e" \in ToSet(seenIds) \ retLive
    /\ "g-e" \notin IdsOf(lastIngest.ret)
    /\ \E r \in 1..Len(lastIngest.log) :
          LET rec == lastIngest.log[r]
          IN  /\ rec.ok
              /\ "g-e" \in rec.seen
              /\ \A j \in 1..Len(rec.ops) : rec.ops[j].id # "g-e"
              /\ \E k \in 1..Min(Len(rec.offered), FeedItemCap) : rec.offered[k] = EntryE
              /\ ScoreTable[rec.src][EntryText(EntryE)].score >= MinScore

\* the ids that the feeds of an ingest added to the dedup cache
RegisteredIn(log) ==
    UNION { { log[r].ops[j].id : j \in 1..Len(log[r].ops) } : r \in 1..Len(log) }

\* no batch eviction has happened yet: the ids ever registered fit the cache
NothingEvicted(ids) == Cardinality(ids) <= SeenCap

\* C29: when an ingest returns after another one, interleaved with it or
\* not, and no id has been evicted, the two returned lists share no id, and
\* every id that either of them registered is in the dedup cache.
InterleavedIngests ==
    [][ (/\ lastIngest.done
         /\ lastIngest' # lastIngest
         /\ NothingEvicted(added')) =>
           /\ IdsOf(lastIngest.ret) \cap IdsOf(lastIngest'.ret) = { }
           /\ RegisteredIn(lastIngest.log) \cup RegisteredIn(lastIngest'.log)
                 \subseteq ToSet(seenIds')
      ]_vars

\* one ingest has returned while another one is between its feeds: the first
\* feed of the running one registered and contributed an entry after the
\* first feed of the returned one and before its last feed, which was offered
\* the same entry and skipped it
IngestsInterleaved ==
    /\ lastIngest.done
    /\ "g-b" \notin lastIngest.log[1].seen
    /\ "g-b" \notin RegisteredIn(lastIngest.log)
    /\ "g-b" \notin IdsOf(lastIngest.ret)
    /\ "g-b" \in lastIngest.log[Len(lastIngest.log)].seen
    /\ lastIngest.log[Len(lastIngest.log)].offered = << EntryB >>
    /\ \E u \in Tasks :
          /\ tasks[u].pc = "fetch"
          /\ Len(feedLog[u]) = 1
          /\ "g-b" \in RegisteredIn(feedLog[u])
          /\ "g-b" \in IdsOf(tasks[u].allNews)

\* the ids of the fixed records of getDemoNews, in their order
DemoIds == << "demo-1", "demo-2", "demo-3", "demo-4", "demo-5" >>

\* the ids of a list of news items, in the order of the list
IdSeq(news) == [ k \in 1..Len(news) |-> news[k].id ]

\* C30: in demo mode a cycle gets its news from getDemoNews: no feed is
\* fetched, no step changes the dedup cache or the ring buffer, and the cycle
\* that begins holds the five demo items with the same ids every time.
DemoLeavesCaches ==
    [][ env.useDemo =>
          /\ seenIds' = seenIds
          /\ recentEvents' = recentEvents
          /\ \A t \in Tasks :
                /\ tasks'[t].pc # "fetch"
                /\ (tasks[t].kind = "none" /\ tasks'[t].kind # "none") =>
                      IdSeq(tasks'[t].news) = DemoIds
      ]_vars

\* a second cycle in demo mode is under way with the demo items, after a
\* first one that has returned with the same number of news
SecondDemoCycle ==
    /\ env.useDemo
    /\ invocations = 2
    /\ lastResult.kind = "force"
    /\ lastResult.newsFound = Len(DemoIds)
    /\ tasks[1].kind = "force"
    /\ IdSeq(tasks[1].news) = DemoIds
    /\ seenIds = << >>
    /\ recentEvents = << >>

====
